---------------------------- MODULE Spec2Model ----------------------------
(***************************************************************************)
(* A model of the nfdump file reader (package nfdump): the materializing   *)
(* reader ParseReader (nfdump.go) and the streaming reader StreamReader /  *)
(* NFStream.Row (stream.go), run over byte-exact input files.              *)
(*                                                                         *)
(* Go slices are modelled as (buf, off, len, cap) views of arrays kept in  *)
(* `heap`, so that aliasing, in-place reversal, buffer reuse and the       *)
(* len/cap bounds checks of the runtime are those of the code.  A failed   *)
(* bounds check is the outcome "panic".                                    *)
(***************************************************************************)
EXTENDS Integers, Sequences, FiniteSets, TLC

(***************************************************************************)
(* Bounds of the model.                                                    *)
(***************************************************************************)
\* Most blocks in an input file.
MaxBlocks == 2
\* Most Row calls made after a Row call has returned an error or io.EOF.
MaxExtraRows == 2
\* Cap on ParseReader's blockRecordCount: a walk that gets this far without
\* leaving the block is cut off (the code would go on).
MaxLoop == 8
\* Spare capacity (zero bytes) the LZO decompressor's output may carry.
LzoSlack == 4
\* The largest low half of a Received value that ReceivedTime is applied to.
MaxReceivedLo == 1200

(***************************************************************************)
(* Program constants.                                                      *)
(***************************************************************************)
magic == 42252
layoutVersion == 1
lzoCompressed == 1
bz2Compressed == 8
lz4Compressed == 16
compressionMask == 25
ExtensionMapRecordHeadType == 2
ExporterInfoRecordHeadType == 7
ExporterStatRecordHeadType == 8
SamplerInfoRecordHeadType == 9
EmptyRecordHeadType == 0
FlowRecordHeadType == 10
\* The largest extension ID an extension map may list.
MaxExtID == 48
\* Size of a block header on the wire: u32 numRecords, u32 size, u16 id, u16 flags.
BlockHeaderSize == 12
Uint16Mod == 65536

(***************************************************************************)
(* Bytes and little-endian integers.                                       *)
(***************************************************************************)
RECURSIVE BitAnd(_, _)
BitAnd(a, b) ==
    IF a = 0 \/ b = 0 THEN 0
    ELSE (a % 2) * (b % 2) + 2 * BitAnd(a \div 2, b \div 2)

\* binary.LittleEndian.Uint16 / Uint32 of a byte sequence.
LE16(bs) == bs[1] + 256 * bs[2]
LE32(bs) == bs[1] + 256 * bs[2] + 65536 * bs[3] + 16777216 * bs[4]
\* binary.LittleEndian.Uint64, kept as two 32-bit halves.
LE64(bs) == [lo |-> LE32(SubSeq(bs, 1, 4)), hi |-> LE32(SubSeq(bs, 5, 8))]
\* uint64(x) of a uint32.
Widen(v) == [lo |-> v, hi |-> 0]
Zero64 == [lo |-> 0, hi |-> 0]

PutU16(v) == <<v % 256, v \div 256>>
PutU32(v) == <<v % 256, (v \div 256) % 256, (v \div 65536) % 256, v \div 16777216>>

Reverse(bs) == [i \in 1..Len(bs) |-> bs[Len(bs) + 1 - i]]
Zeros(n) == [i \in 1..n |-> 0]

RECURSIVE Flatten(_)
Flatten(ss) == IF ss = <<>> THEN <<>> ELSE Head(ss) \o Flatten(Tail(ss))


(***************************************************************************)
(* The file format: records, blocks and files as the bytes a writer lays   *)
(* down, read back by the decoders below at the offsets the code uses.     *)
(***************************************************************************)
\* Record header: u16 type | u16 size.
RecHdr(type, size) == PutU16(type) \o PutU16(size)

\* Extension-map record: header, u16 mapID, u16 extSize, then the u16 IDs.
ExtMapRec(mapID, extSize, ids) ==
    RecHdr(ExtensionMapRecordHeadType, 8 + 2 * Len(ids))
        \o PutU16(mapID) \o PutU16(extSize)
        \o Flatten([i \in 1..Len(ids) |-> PutU16(ids[i])])

\* Length of the variable common part of a flow record with these flags.
FlowFixedLen(flags) ==
    32 + (IF flags % 2 = 1 THEN 32 ELSE 8)
       + (IF (flags \div 2) % 2 = 1 THEN 8 ELSE 4)
       + (IF (flags \div 4) % 2 = 1 THEN 8 ELSE 4)

\* Payload byte of a flow record at (0-based) offset o: distinct neighbours,
\* so that a reversed or shifted window shows.
Fill(tag, o) == ((tag * 7 + o) % 100) + 1

\* A flow record (type 10): sizeField goes in the header, the body holds the
\* common block, the IP and counter fields and extLen bytes of extensions.
FlowRec(sizeField, flags, mapID, proto, tag, extLen) ==
    [i \in 1..(FlowFixedLen(flags) + extLen) |->
        LET o == i - 1 IN
        CASE o \in 0..3 -> RecHdr(FlowRecordHeadType, sizeField)[i]
          [] o \in 4..5 -> PutU16(flags)[o - 3]
          [] o \in 6..7 -> PutU16(mapID)[o - 5]
          [] o = 22     -> proto
          [] OTHER      -> Fill(tag, o)]

\* The records the input blocks are made of.
M1   == ExtMapRec(1, 1, <<9, 0>>)
M2   == ExtMapRec(2, 1, <<24, 0>>)
F4   == FlowRec(52, 0, 1, 6, 1, 4)
FI   == FlowRec(52, 0, 1, 1, 2, 4)
F58  == FlowRec(52, 0, 1, 58, 3, 4)
F6   == FlowRec(76, 1, 1, 6, 4, 4)
F24  == FlowRec(64, 0, 2, 6, 5, 16)
\* Exporter info (type 7, 32 bytes) with an IPv4 address, sampler info (type 9,
\* 16 bytes) and a record of an unknown type (8 bytes).
X7   == [i \in 1..32 |-> LET o == i - 1 IN
            CASE o \in 0..3   -> RecHdr(ExporterInfoRecordHeadType, 32)[i]
              [] o \in 16..23 -> 0
              [] OTHER        -> Fill(7, o)]
S9   == RecHdr(SamplerInfoRecordHeadType, 16) \o [i \in 1..12 |-> Fill(9, i)]
UK   == RecHdr(5, 8) \o <<1, 2, 3, 4>>
\* A flow record whose header says size 0.
Z10  == FlowRec(0, 0, 1, 6, 6, 4)
\* A record of an unknown type whose header says size 0.
ZU   == RecHdr(5, 0)
\* The end-of-block sentinel.
S0   == RecHdr(EmptyRecordHeadType, 4)
\* An extension map whose ID list is zero padding only, and a flow record
\* (no extension bytes) that names it.
MP   == ExtMapRec(3, 1, <<0, 0>>)
FP   == FlowRec(48, 0, 3, 6, 7, 0)
\* A flow record that names map 4, and the map record that defines map 4.
FL   == FlowRec(52, 0, 4, 6, 8, 4)
ML   == ExtMapRec(4, 1, <<9, 0>>)
\* Extension maps the handler rejects: an ID above 48 after a good one, and
\* extSize 0.
MB   == ExtMapRec(1, 1, <<9, 49>>)
MV2  == ExtMapRec(1, 0, <<9, 0>>)
\* The largest ID the handler accepts, and a flow record with its 8 bytes.
M48  == ExtMapRec(5, 1, <<48, 0>>)
F48  == FlowRec(56, 0, 5, 6, 9, 8)
\* Map 1 defined again with another list, and a flow record for it.
M1b  == ExtMapRec(1, 1, <<4, 6>>)
F1b  == FlowRec(56, 0, 1, 6, 10, 8)
\* A flow record for map 1 whose size stops before its extension bytes.
FS   == FlowRec(48, 0, 1, 6, 11, 0)
\* An extension-map record header whose size is below the 8 bytes of the
\* header, mapID and extSize.
MS   == RecHdr(ExtensionMapRecordHeadType, 4)
\* A flow record for map 1 with 4 bytes of padding after its extension bytes.
FW   == FlowRec(56, 0, 1, 6, 12, 8)
\* Exporter info with the SysID of X7 and another ID.
X7b  == [i \in 1..32 |-> IF i \in 29..32 THEN Fill(3, i) ELSE X7[i]]
\* An exporter-statistics record (type 8) with one entry of 24 bytes.
ST8  == RecHdr(ExporterStatRecordHeadType, 32) \o PutU32(1)
            \o [i \in 1..24 |-> Fill(8, i)]

\* A block: the header's numRecords and id, and the records of its body.
Blk(n, id, recs) == [NumRecords |-> n, ID |-> id, recs |-> recs]

\* The blocks the input files are made of: two blocks of flow records, a block
\* whose id is not 2, a block of metadata records only, a block whose flow
\* record has size 0 (numRecords says one record more), a block whose only
\* record is of an unknown type with size 0, and a block that ends with the
\* end-of-block sentinel.
FlowBlock        == Blk(3, 2, <<M1, F4, FI>>)
MixedBlock       == Blk(5, 2, <<M1, M2, F6, F58, F24>>)
ForeignBlock     == Blk(1, 1, <<UK>>)
MetaBlock        == Blk(4, 2, <<M1, X7, S9, UK>>)
ZeroFlowBlock    == Blk(3, 2, <<M1, Z10>>)
ZeroUnknownBlock == Blk(1, 2, <<ZU>>)
SentinelBlock    == Blk(3, 2, <<M1, F4, S0>>)

BlockCatalog ==
    {FlowBlock, MixedBlock, ForeignBlock, MetaBlock, ZeroFlowBlock, ZeroUnknownBlock,
     SentinelBlock}

\* Blocks for single cases: a map of zero padding, a map defined after its
\* flow record, the rejected maps, ID 48, a map defined three times, a flow
\* record shorter than its extensions, an exporter-statistics record and a
\* sentinel with a flow record after them, and a record of an unknown type
\* ahead of a flow record, and exporter and sampler records between flow
\* records, and a flow record longer than the bytes decoded from it.
PaddingMapBlock  == Blk(2, 2, <<MP, FP>>)
LateMapBlock     == Blk(2, 2, <<FL, ML>>)
BadIDBlock       == Blk(2, 2, <<MB, F4>>)
V2MapBlock       == Blk(2, 2, <<MV2, F4>>)
Map48Block       == Blk(2, 2, <<M48, F48>>)
RemapBlock       == Blk(5, 2, <<M1, M1, F4, M1b, F1b>>)
ShortFlowBlock   == Blk(3, 2, <<M1, FS, F4>>)
StatBlock        == Blk(4, 2, <<M1, F4, ST8, FI>>)
MidSentinelBlock == Blk(4, 2, <<M1, F4, S0, FI>>)
UnknownMidBlock  == Blk(3, 2, <<M1, UK, F4>>)
TablesBlock      == Blk(6, 2, <<M1, X7, F4, X7b, S9, FI>>)
PaddedFlowBlock  == Blk(3, 2, <<M1, FW, F4>>)
LongFlowBlock    == Blk(4, 2, <<M1, F4, FI, FW>>)
ShortMapBlock    == Blk(3, 2, <<M1, MS, F4>>)

CaseBlockSeqs ==
    {<<PaddingMapBlock>>, <<LateMapBlock>>, <<BadIDBlock>>, <<V2MapBlock>>,
     <<Map48Block>>, <<RemapBlock>>, <<ShortFlowBlock>>, <<StatBlock>>,
     <<StatBlock, FlowBlock>>, <<MidSentinelBlock>>, <<MidSentinelBlock, FlowBlock>>,
     <<UnknownMidBlock>>, <<TablesBlock>>, <<StatBlock, TablesBlock>>,
     <<PaddedFlowBlock>>, <<ShortMapBlock>>}

\* Header flags that select a compression the readers do not support, and
\* the block sequences of the files that carry them.
UnsupportedFlags == {bz2Compressed, lz4Compressed, bz2Compressed + lz4Compressed}
UnsupportedBlockSeqs ==
    {<<FlowBlock>>, <<ForeignBlock, FlowBlock>>, <<FlowBlock, MixedBlock>>}

\* A block body as LZO1X stores a short literal run: 17+n, the n literals,
\* and the end-of-stream marker 17 0 0.
LzoStore(plain) == <<17 + Len(plain)>> \o plain \o <<17, 0, 0>>

\* The bytes of a block on the wire: header, then the (compressed) body.
BlockWire(b, flags) ==
    LET plain == Flatten(b.recs)
        body  == IF BitAnd(flags, lzoCompressed) > 0 THEN LzoStore(plain) ELSE plain
    IN PutU32(b.NumRecords) \o PutU32(Len(body)) \o PutU16(b.ID) \o PutU16(0) \o body

BlockSeqs == UNION {[1..k -> BlockCatalog] : k \in 0..MaxBlocks}

\* The type-10 records the id-2 blocks of bs hold, in file order; the
\* records of a block end with its first record of type 0 or 8.
IsFlowRec(rec) == LE16(SubSeq(rec, 1, 2)) = FlowRecordHeadType
IsBlockEnd(rec) ==
    LE16(SubSeq(rec, 1, 2)) \in {EmptyRecordHeadType, ExporterStatRecordHeadType}
BeforeEnd(recs) ==
    IF \E i \in 1..Len(recs) : IsBlockEnd(recs[i])
    THEN SubSeq(recs, 1, (CHOOSE i \in 1..Len(recs) :
                            /\ IsBlockEnd(recs[i])
                            /\ \A j \in 1..(i - 1) : ~IsBlockEnd(recs[j])) - 1)
    ELSE recs
FlowsOf(bs) ==
    Flatten([i \in 1..Len(bs) |->
                IF bs[i].ID = 2 THEN SelectSeq(BeforeEnd(bs[i].recs), IsFlowRec) ELSE <<>>])

\* The records of the id-2 blocks of bs in file order, each block up to and
\* including its first record of type 0 or 8.
ThroughEnd(recs) ==
    IF BeforeEnd(recs) = recs THEN recs ELSE SubSeq(recs, 1, Len(BeforeEnd(recs)) + 1)
RecordsOf(bs) ==
    Flatten([i \in 1..Len(bs) |-> IF bs[i].ID = 2 THEN ThroughEnd(bs[i].recs) ELSE <<>>])

\* A file: the header fields, whether header and stat record are complete
\* ("ok", "shortHeader", "shortStat"), and the bytes that follow the stat
\* record.  flows and records are not part of the bytes: they list the flow
\* records, and all the records, the writer laid down in the id-2 blocks,
\* for the properties to compare against.
File(mg, ver, flags, nb, pre, data, flows, records) ==
    [Magic |-> mg, Version |-> ver, Flags |-> flags, NumBlocks |-> nb,
     preamble |-> pre, data |-> data, flows |-> flows, records |-> records]

WholeFile(flags, bs) ==
    File(magic, layoutVersion, flags, Len(bs), "ok",
         Flatten([i \in 1..Len(bs) |-> BlockWire(bs[i], flags)]), FlowsOf(bs),
         RecordsOf(bs))

\* The file cut short inside its last block: "partialHeader" keeps 5 bytes of
\* the last block header, "noBody" the whole header and no body byte,
\* "partialBody" the header and 2 body bytes.  The flow records it holds are
\* those of the blocks before the last.
\* Blocks ahead of a block header that is cut short: the first block is
\* longer than the second, so the block buffer keeps its last record behind
\* the bytes of the second.
CutCaseSeqs == {<<LongFlowBlock, FlowBlock, FlowBlock>>}

CutFile(bs, cut) ==
    LET whole == WholeFile(0, bs)
        last  == Len(BlockWire(bs[Len(bs)], 0))
        keep  == CASE cut = "partialHeader" -> 5
                   [] cut = "noBody"        -> BlockHeaderSize
                   [] OTHER                 -> BlockHeaderSize + 2
    IN [whole EXCEPT !.data = SubSeq(whole.data, 1, Len(whole.data) - last + keep),
                     !.flows = FlowsOf(SubSeq(bs, 1, Len(bs) - 1)),
                     !.records = RecordsOf(SubSeq(bs, 1, Len(bs) - 1))]

Files ==
    {WholeFile(fl, bs) : fl \in {0, lzoCompressed}, bs \in BlockSeqs \cup CaseBlockSeqs}
    \cup {WholeFile(fl, bs) : fl \in UnsupportedFlags, bs \in UnsupportedBlockSeqs}
    \cup {CutFile(bs, cut) : bs \in BlockSeqs \ {<<>>},
                             cut \in {"partialHeader", "noBody", "partialBody"}}
    \cup {CutFile(bs, "partialHeader") : bs \in CutCaseSeqs}
    \cup {File(mg, ver, 0, 1, "ok", BlockWire(FlowBlock, 0), FlowsOf(<<FlowBlock>>),
                RecordsOf(<<FlowBlock>>)) :
             mg \in {magic, 1}, ver \in {layoutVersion, 2}}
    \cup {File(magic, layoutVersion, 0, 0, pre, <<>>, <<>>, <<>>) :
             pre \in {"shortHeader", "shortStat"}}


(***************************************************************************)
(* Go slices over the heap.  heap[b] is the array of allocation b; a slice *)
(* is a view (buf, off, len, cap) of it.  s[lo:hi] needs hi <= cap(s),     *)
(* s[lo:] needs lo <= len(s), s[i] needs i < len(s): anything else panics. *)
(***************************************************************************)
NilSlice == [buf |-> 0, off |-> 0, len |-> 0, cap |-> 0]

\* make([]byte, n): a new zeroed array, len = cap = n.
Alloc(heap, bytes) == Append(heap, bytes)
NewSlice(heap, n) == [buf |-> Len(heap) + 1, off |-> 0, len |-> n, cap |-> n]

\* d[start:] for start <= len(d).
From(d, start) ==
    [buf |-> d.buf, off |-> d.off + start, len |-> d.len - start, cap |-> d.cap - start]

\* The bytes r[a:b] (0-based, b exclusive) of a slice with b <= cap(r).
RB(heap, r, a, b) == SubSeq(heap[r.buf], r.off + a + 1, r.off + b)

\* r[ro:][0:k] is in bounds.
RdOK(r, ro, k) == ro <= r.len /\ ro + k <= r.cap

\* The heap with n bytes at absolute offset o of array b replaced by bytes.
Poke(heap, b, o, bytes) ==
    [heap EXCEPT ![b] = SubSeq(@, 1, o) \o bytes \o SubSeq(@, o + Len(bytes) + 1, Len(@))]

\* reverseByteSlice(r[a:b]): the window is reversed in place.
reverseByteSlice(heap, r, a, b) == Poke(heap, r.buf, r.off + a, Reverse(RB(heap, r, a, b)))

(***************************************************************************)
(* net.IP values held by records: nil, a view of a heap array (the value   *)
(* aliases the array), or bytes of an array nothing else refers to ("own").*)
(***************************************************************************)
NilIP == [kind |-> "nil", buf |-> 0, off |-> 0, len |-> 0, cap |-> 0, bytes |-> <<>>]
ViewIP(r, a, b) ==
    [kind |-> "view", buf |-> r.buf, off |-> r.off + a, len |-> b - a,
     cap |-> r.cap - a, bytes |-> <<>>]
OwnIP(bytes) ==
    [kind |-> "own", buf |-> 0, off |-> 0, len |-> Len(bytes), cap |-> Len(bytes),
     bytes |-> bytes]

\* The bytes an IP value holds now.
IPBytes(heap, ip) ==
    CASE ip.kind = "nil"  -> <<>>
      [] ip.kind = "view" -> SubSeq(heap[ip.buf], ip.off + 1, ip.off + ip.len)
      [] OTHER            -> ip.bytes

\* append(ip, bytes...): in place when the capacity allows, else a new array.
AppendIP(heap, ip, bytes) ==
    IF ip.kind = "view" /\ ip.len + Len(bytes) <= ip.cap
    THEN [heap |-> Poke(heap, ip.buf, ip.off + ip.len, bytes),
          ip   |-> [ip EXCEPT !.len = @ + Len(bytes)]]
    ELSE [heap |-> heap, ip |-> OwnIP(IPBytes(heap, ip) \o bytes)]

ZeroRecord ==
    [Flags |-> 0, MsecFirst |-> 0, MsecLast |-> 0, First |-> 0, Last |-> 0,
     FwdStatus |-> 0, TCPFlags |-> 0, Proto |-> 0, Tos |-> 0, SrcPort |-> 0,
     DstPort |-> 0, ExporterSysID |-> 0, Reserved |-> 0, ICMPType |-> 0,
     ICMPCode |-> 0, SrcIP |-> NilIP, DstIP |-> NilIP, PacketCount |-> Zero64,
     ByteCount |-> Zero64, Input |-> 0, Output |-> 0, SrcAS |-> 0, DstAS |-> 0,
     DstTos |-> 0, Dir |-> 0, SrcMask |-> 0, DstMask |-> 0, NextHopIP |-> NilIP,
     BGPNextIP |-> NilIP, SrcVlan |-> 0, DstVLan |-> 0, OutPkts |-> Zero64,
     OutBytes |-> Zero64, AggeFlows |-> Zero64, RouterIP |-> NilIP,
     Received |-> Zero64]

IPFields == {"SrcIP", "DstIP", "NextHopIP", "BGPNextIP", "RouterIP"}

\* A record as the caller reads it now: every IP field by its current bytes.
RecVal(heap, rec) ==
    [f \in DOMAIN rec |-> IF f \in IPFields THEN IPBytes(heap, rec[f]) ELSE rec[f]]


(***************************************************************************)
(* The flow-record decoder.  A decode state is [ok, heap, rec, ro]: ok is  *)
(* FALSE once a bounds check has failed, ro is readOffset.                 *)
(***************************************************************************)
Skip(n)     == [k |-> "skip", f |-> "", n |-> n]
U8(f)       == [k |-> "u8", f |-> f, n |-> 1]
U16(f)      == [k |-> "u16", f |-> f, n |-> 2]
U32(f)      == [k |-> "u32", f |-> f, n |-> 4]
U32W(f)     == [k |-> "u32w", f |-> f, n |-> 4]
U64(f)      == [k |-> "u64", f |-> f, n |-> 8]
IPRev(f, n) == [k |-> "ip", f |-> f, n |-> n]
IPHalves(f) == [k |-> "ip6halves", f |-> f, n |-> 16]

\* The switch over extID, for the cases ParseReader and Row share.
ExtSteps(extID) ==
    CASE extID = 4  -> <<U16("Input"), U16("Output")>>
      [] extID = 5  -> <<U32("Input"), U32("Output")>>
      [] extID = 6  -> <<U16("SrcAS"), U16("DstAS")>>
      [] extID = 7  -> <<U32("SrcAS"), U32("DstAS")>>
      [] extID = 8  -> <<U8("DstTos"), U8("Dir"), U8("SrcMask"), U8("DstMask")>>
      [] extID = 9  -> <<IPRev("NextHopIP", 4)>>
      [] extID = 10 -> <<IPRev("NextHopIP", 16)>>
      [] extID = 11 -> <<IPRev("BGPNextIP", 4)>>
      [] extID = 12 -> <<IPRev("BGPNextIP", 16)>>
      [] extID = 13 -> <<U16("SrcVlan"), U16("DstVLan")>>
      [] extID = 14 -> <<U32W("OutPkts")>>
      [] extID = 15 -> <<U64("OutPkts")>>
      [] extID = 16 -> <<U32W("OutBytes")>>
      [] extID = 17 -> <<U64("OutBytes")>>
      [] extID = 18 -> <<U32W("AggeFlows")>>
      [] extID = 19 -> <<U64("AggeFlows")>>
      [] extID \in {20, 21} -> <<Skip(16)>>
      [] extID = 22 -> <<Skip(40)>>
      [] extID = 23 -> <<IPRev("RouterIP", 4)>>
      [] extID = 25 -> <<Skip(4)>>
      [] extID = 26 -> <<Skip(8)>>
      [] extID = 27 -> <<U64("Received")>>
      [] extID = 37 -> <<Skip(20)>>
      [] extID = 38 -> <<Skip(4)>>
      [] extID = 39 -> <<Skip(8)>>
      [] extID = 40 -> <<Skip(32)>>
      [] extID \in {41, 42, 45} -> <<Skip(24)>>
      [] extID = 43 -> <<Skip(72)>>
      [] extID = 46 -> <<Skip(12)>>
      [] extID \in {47, 48} -> <<Skip(8)>>
      [] OTHER -> <<>>

\* Extension 24 in Row: RouterIP from two 8-byte halves, each reversed.
RowExtSteps(extID) == IF extID = 24 THEN <<IPHalves("RouterIP")>> ELSE ExtSteps(extID)
\* Extension 24 in ParseReader: 16 bytes passed over.
ParseExtSteps(extID) == IF extID = 24 THEN <<Skip(16)>> ELSE ExtSteps(extID)

\* One read of the extension switch at readOffset.
ExtStep(st, r, step) ==
    IF ~st.ok THEN st
    ELSE IF step.k = "skip" THEN [st EXCEPT !.ro = @ + step.n]
    ELSE IF step.k = "u8" THEN
        IF st.ro < r.len
        THEN [st EXCEPT !.rec[step.f] = RB(st.heap, r, st.ro, st.ro + 1)[1], !.ro = @ + 1]
        ELSE [st EXCEPT !.ok = FALSE]
    ELSE IF ~RdOK(r, st.ro, step.n) THEN [st EXCEPT !.ok = FALSE]
    ELSE LET bs == RB(st.heap, r, st.ro, st.ro + step.n) IN
         CASE step.k = "u16"  -> [st EXCEPT !.rec[step.f] = LE16(bs), !.ro = @ + 2]
           [] step.k = "u32"  -> [st EXCEPT !.rec[step.f] = LE32(bs), !.ro = @ + 4]
           [] step.k = "u32w" -> [st EXCEPT !.rec[step.f] = Widen(LE32(bs)), !.ro = @ + 4]
           [] step.k = "u64"  -> [st EXCEPT !.rec[step.f] = LE64(bs), !.ro = @ + 8]
           [] step.k = "ip"   ->
                [st EXCEPT !.heap = reverseByteSlice(st.heap, r, st.ro, st.ro + step.n),
                           !.rec[step.f] = ViewIP(r, st.ro, st.ro + step.n),
                           !.ro = @ + step.n]
           [] OTHER ->
                LET h1 == reverseByteSlice(st.heap, r, st.ro, st.ro + 8)
                    a1 == AppendIP(h1, st.rec[step.f], RB(h1, r, st.ro, st.ro + 8))
                    h2 == reverseByteSlice(a1.heap, r, st.ro + 8, st.ro + 16)
                    a2 == AppendIP(h2, a1.ip, RB(h2, r, st.ro + 8, st.ro + 16))
                IN [st EXCEPT !.heap = a2.heap, !.rec[step.f] = a2.ip, !.ro = @ + 16]

\* The reads of one case of the switch, in order.  (A value that is used more
\* than once is bound through a singleton set, here and below, so that it is
\* computed once.)
RECURSIVE ExtStepsRun(_, _, _, _)
ExtStepsRun(st, r, steps, i) ==
    IF i > Len(steps) THEN st
    ELSE CHOOSE res \in {ExtStepsRun(ExtStep(v, r, steps[i]), r, steps, i + 1) : v \in {st}} :
            TRUE

\* for _, extID := range exts { switch extID { ... } }
RECURSIVE RowExts(_, _, _, _)
RowExts(st, r, exts, i) ==
    IF i > Len(exts) THEN st
    ELSE RowExts(ExtStepsRun(st, r, RowExtSteps(exts[i]), 1), r, exts, i + 1)

RECURSIVE ParseExts(_, _, _, _)
ParseExts(st, r, exts, i) ==
    IF i > Len(exts) THEN st
    ELSE ParseExts(ExtStepsRun(st, r, ParseExtSteps(exts[i]), 1), r, exts, i + 1)

\* Row's test for an ICMP record, and ParseReader's.
RowIsICMP(proto) == proto = 1 \/ proto = 58
ParseIsICMP(proto) == proto = 1

\* The IPv6 source and destination address in Row: each 8-byte half is
\* reversed in place and appended to the record's own slice.
RowIPv6(heap, r) ==
    LET h1 == reverseByteSlice(heap, r, 32, 40)
        h2 == reverseByteSlice(h1, r, 40, 48)
        h3 == reverseByteSlice(h2, r, 48, 56)
        h4 == reverseByteSlice(h3, r, 56, 64)
    IN [heap |-> h4,
        src  |-> OwnIP(RB(h4, r, 32, 40) \o RB(h4, r, 40, 48)),
        dst  |-> OwnIP(RB(h4, r, 48, 56) \o RB(h4, r, 56, 64))]

\* The IPv6 addresses in ParseReader: each 16-byte window is reversed in place
\* as a whole and the record keeps the window.
ParseIPv6(heap, r) ==
    LET h1 == reverseByteSlice(heap, r, 32, 48)
        h2 == reverseByteSlice(h1, r, 48, 64)
    IN [heap |-> h2, src |-> ViewIP(r, 32, 48), dst |-> ViewIP(r, 48, 64)]

\* The IPv4 branch taking 8 bytes for each address.
IPv4AddrsWide(heap, r) ==
    [heap |-> heap, src |-> ViewIP(r, 32, 40), dst |-> ViewIP(r, 40, 48)]

\* The IPv4 addresses (both readers): the record keeps the reversed windows.
IPv4Addrs(heap, r) ==
    LET h1 == reverseByteSlice(heap, r, 32, 36)
        h2 == reverseByteSlice(h1, r, 36, 40)
    IN [heap |-> h2, src |-> ViewIP(r, 32, 36), dst |-> ViewIP(r, 36, 40)]

\* The common block and the flag-sized fields of a flow record at r, up to
\* readOffset.  api is "row" or "parse".  Result [ok, heap, rec, ro, mapID].
FlowCommon(api, heap, r) ==
    LET bad == [ok |-> FALSE, heap |-> heap, rec |-> ZeroRecord, ro |-> 0, mapID |-> 0] IN
    IF ~(32 <= r.cap /\ 23 < r.len) THEN bad
    ELSE
    LET flags == LE16(RB(heap, r, 4, 6))
        proto == RB(heap, r, 22, 23)[1]
        icmp  == IF api = "row" THEN RowIsICMP(proto) ELSE ParseIsICMP(proto)
        v6    == flags % 2 = 1
        ipSize == IF v6 THEN 32 ELSE 8
        pcs   == IF (flags \div 2) % 2 = 1 THEN 8 ELSE 4
        bcs   == IF (flags \div 4) % 2 = 1 THEN 8 ELSE 4
    IN
    IF (icmp /\ ~(27 < r.len))
       \/ ~(32 + ipSize <= r.cap)
       \/ ~RdOK(r, 32 + ipSize, pcs)
       \/ ~RdOK(r, 32 + pcs + ipSize, bcs)
    THEN bad
    ELSE
    CHOOSE res \in {
    LET h   == ips.heap
        icmpType == RB(h, r, 27, 28)[1]
        icmpCode == RB(h, r, 26, 27)[1]
        pcb == RB(h, r, 32 + ipSize, 32 + ipSize + pcs)
        bcb == RB(h, r, 32 + pcs + ipSize, 32 + pcs + ipSize + bcs)
        rec == [ZeroRecord EXCEPT
                  !.Flags = flags,
                  !.MsecFirst = LE16(RB(h, r, 8, 10)),
                  !.MsecLast = LE16(RB(h, r, 10, 12)),
                  !.First = LE32(RB(h, r, 12, 16)),
                  !.Last = LE32(RB(h, r, 16, 20)),
                  !.FwdStatus = RB(h, r, 20, 21)[1],
                  !.TCPFlags = RB(h, r, 21, 22)[1],
                  !.Proto = proto,
                  !.Tos = RB(h, r, 23, 24)[1],
                  !.ICMPType = IF icmp THEN icmpType ELSE 0,
                  !.ICMPCode = IF icmp THEN icmpCode ELSE 0,
                  !.SrcPort = IF icmp THEN 0 ELSE LE16(RB(h, r, 24, 26)),
                  !.DstPort = IF icmp THEN (icmpType * 256 + icmpCode) % Uint16Mod
                              ELSE LE16(RB(h, r, 26, 28)),
                  !.ExporterSysID = LE16(RB(h, r, 28, 30)),
                  !.Reserved = LE16(RB(h, r, 30, 32)),
                  !.SrcIP = ips.src,
                  !.DstIP = ips.dst,
                  !.PacketCount = IF pcs = 8 THEN LE64(pcb) ELSE Widen(LE32(pcb)),
                  !.ByteCount = IF bcs = 8 THEN LE64(bcb) ELSE Widen(LE32(bcb))]
    IN [ok |-> TRUE, heap |-> h, rec |-> rec, ro |-> 32 + pcs + ipSize + bcs,
        mapID |-> LE16(RB(heap, r, 6, 8))]
      : ips \in {IF ~v6 THEN IPv4Addrs(heap, r)
                 ELSE IF api = "row" THEN RowIPv6(heap, r) ELSE ParseIPv6(heap, r)}} : TRUE

\* A flow record decoded at r with extension map extMap.  Result
\* [st, heap, rec, ro]: st is "ok", "panic" (a bounds check failed) or
\* "nomap" (the record's map ID is not in extMap).  DecodeFlowFrom is the part
\* after the common block c: the map lookup and the extensions.
DecodeFlowFrom(api, c, r, extMap) ==
    IF ~c.ok THEN [st |-> "panic", heap |-> c.heap, rec |-> ZeroRecord, ro |-> 0]
    ELSE IF c.mapID \notin DOMAIN extMap
    THEN [st |-> "nomap", heap |-> c.heap, rec |-> c.rec, ro |-> c.ro]
    ELSE LET s0 == [ok |-> TRUE, heap |-> c.heap, rec |-> c.rec, ro |-> c.ro]
             e  == IF api = "row" THEN RowExts(s0, r, extMap[c.mapID], 1)
                   ELSE ParseExts(s0, r, extMap[c.mapID], 1)
         IN CHOOSE res \in {[st |-> IF v.ok THEN "ok" ELSE "panic", heap |-> v.heap,
                              rec |-> v.rec, ro |-> v.ro] : v \in {e}} : TRUE

DecodeFlow(api, heap, r, extMap) ==
    CHOOSE res \in {DecodeFlowFrom(api, c, r, extMap) : c \in {FlowCommon(api, heap, r)}} :
        TRUE


(***************************************************************************)
(* The handlers of the non-flow records, shared by ParseReader and Row     *)
(* (the two functions hold the same text for them).                        *)
(***************************************************************************)
\* m[k] = v of a Go map.
MapSet(m, k, v) == [x \in DOMAIN m \cup {k} |-> IF x = k THEN v ELSE m[x]]
EmptyMap == [x \in {} |-> 0]

\* The number of extension IDs read from an extension-map record of this
\* size: (size - 8) / 2 in uint16 arithmetic.
ExtIDCount(size) == ((size - 8) % Uint16Mod) \div 2

\* The ID check with the bound taken one too low.
BadExtIDFrom48(id) == id >= MaxExtID

\* An extension ID the map handler rejects.
BadExtID(id) == id > MaxExtID

\* The loop over the extension IDs of an extension-map record.  Result
\* [st, extMap, used, read]: st is "ok", "panic" or "badid"; used lists the
\* IDs appended; read is the number of IDs read out of the block.
RECURSIVE ExtMapLoop(_, _, _, _, _, _, _), ExtMapLoopAt(_, _, _, _, _, _, _)
ExtMapLoop(heap, r, size, mapID, extMap, used, x) ==
    CHOOSE res \in {ExtMapLoopAt(heap, r, size, mapID, m, u, x) : m \in {extMap}, u \in {used}} :
        TRUE

ExtMapLoopAt(heap, r, size, mapID, extMap, used, x) ==
    IF ~(x < ExtIDCount(size))
    THEN [st |-> "ok", extMap |-> extMap, used |-> used, read |-> x]
    ELSE IF ~(10 + 2 * x <= r.cap)
    THEN [st |-> "panic", extMap |-> extMap, used |-> used, read |-> x]
    ELSE LET newExtMapID == LE16(RB(heap, r, 8 + 2 * x, 10 + 2 * x)) IN
         IF BadExtID(newExtMapID)
         THEN [st |-> "badid", extMap |-> extMap, used |-> used, read |-> x + 1]
         ELSE IF newExtMapID # 0
         THEN ExtMapLoop(heap, r, size, mapID,
                         MapSet(extMap, mapID,
                                (IF mapID \in DOMAIN extMap THEN extMap[mapID] ELSE <<>>)
                                    \o <<newExtMapID>>),
                         used \o <<newExtMapID>>, x + 1)
         ELSE ExtMapLoop(heap, r, size, mapID, extMap, used, x + 1)

\* The map handler without the reset of an existing list.
KeepMapList(extMap, mapID) == extMap

\* A list already stored for mapID is emptied before the IDs are appended.
ResetMapList(extMap, mapID) ==
    IF mapID \in DOMAIN extMap THEN MapSet(extMap, mapID, <<>>) ELSE extMap

\* The extension IDs an extension-map record of this size lists at r, zero
\* padding included, and those of them that are not zero.
ListedIDs(heap, r, size) ==
    [x \in 1..((size - 8) \div 2) |-> LE16(RB(heap, r, 6 + 2 * x, 8 + 2 * x))]
IsExtID(id) == id # 0
NonZeroIDs(heap, r, size) == SelectSeq(ListedIDs(heap, r, size), IsExtID)

\* An extension-map record (type 2) at r.  st "v2" is extSize = 0.
ExtMapRecord(heap, r, size, extMap) ==
    IF ~(8 <= r.cap) THEN [st |-> "panic", extMap |-> extMap, used |-> <<>>, read |-> 0]
    ELSE LET mapID   == LE16(RB(heap, r, 4, 6))
             extSize == LE16(RB(heap, r, 6, 8))
         IN IF extSize = 0
            THEN [st |-> "v2", extMap |-> extMap, used |-> <<>>, read |-> 0]
            ELSE ExtMapLoop(heap, r, size, mapID, ResetMapList(extMap, mapID), <<>>, 0)

\* The exporter table keyed by the exporter's ID field.
ExporterKeyByID(exporter) == exporter.ID

\* The key under which an exporter is stored in Exporters.
ExporterKey(exporter) == exporter.SysID

\* An exporter-info record (type 7) at r.  Result [ok, exporter].
ExporterRecord(heap, r) ==
    IF ~(32 <= r.cap) THEN [ok |-> FALSE, exporter |-> <<>>]
    ELSE [ok |-> TRUE,
          exporter |->
            [Version |-> LE32(RB(heap, r, 4, 8)),
             SAFamily |-> LE16(RB(heap, r, 24, 26)),
             SysID |-> LE16(RB(heap, r, 26, 28)),
             ID |-> LE32(RB(heap, r, 28, 32)),
             IPAddr |-> IF LE64(RB(heap, r, 16, 24)) = Zero64
                        THEN ViewIP(r, 12, 16)
                        ELSE OwnIP(RB(heap, r, 16, 24) \o RB(heap, r, 8, 16))]]

\* A sampler-info record (type 9) at r.  Result [ok, sampler].
SamplerRecord(heap, r) ==
    IF ~(16 <= r.cap) THEN [ok |-> FALSE, sampler |-> <<>>]
    ELSE [ok |-> TRUE,
          sampler |->
            [ID |-> LE32(RB(heap, r, 4, 8)),
             Interval |-> LE32(RB(heap, r, 8, 12)),
             Mode |-> LE16(RB(heap, r, 12, 14)),
             ExporterSysID |-> LE16(RB(heap, r, 14, 16))]]

\* The loop over the entries of an exporter-statistics record (type 8).
RECURSIVE StatLoop(_, _, _, _, _), StatLoopAt(_, _, _, _, _)
StatLoop(heap, r, statCount, stats, statPosition) ==
    CHOOSE res \in {StatLoopAt(heap, r, statCount, m, statPosition) : m \in {stats}} : TRUE

StatLoopAt(heap, r, statCount, stats, statPosition) ==
    IF ~(statPosition < statCount) THEN [ok |-> TRUE, stats |-> stats]
    ELSE LET j == statPosition * 24 + 8 IN
         IF ~(j + 24 <= r.cap) THEN [ok |-> FALSE, stats |-> stats]
         ELSE LET statRecord ==
                    [SysID |-> LE32(RB(heap, r, j, j + 4)),
                     SequenceFailures |-> LE32(RB(heap, r, j + 4, j + 8)),
                     Packets |-> LE64(RB(heap, r, j + 8, j + 16)),
                     Flows |-> LE64(RB(heap, r, j + 16, j + 24))]
              IN StatLoop(heap, r, statCount, MapSet(stats, statRecord.SysID, statRecord),
                          statPosition + 1)

\* The statistics handler keeping none of the entries.
StatRecordDropped(heap, r, stats) == [ok |-> TRUE, stats |-> stats]

\* An exporter-statistics record (type 8) at r.  Result [ok, stats].
StatRecord(heap, r, stats) ==
    IF ~(8 <= r.cap) THEN [ok |-> FALSE, stats |-> stats]
    ELSE StatLoop(heap, r, LE32(RB(heap, r, 4, 8)), stats, 0)

(***************************************************************************)
(* The byte source and the decompressor.                                   *)
(***************************************************************************)
\* io.ReadFull of n bytes at pos: "EOF" when n > 0 and no byte is left,
\* "ErrUnexpectedEOF" when fewer than n are; binary.Read of a zero-length
\* value reads nothing.
ReadFull(data, pos, n) ==
    LET avail == Len(data) - pos IN
    IF n = 0 THEN [err |-> "nil", bytes |-> <<>>, pos |-> pos]
    ELSE IF avail = 0 THEN [err |-> "EOF", bytes |-> <<>>, pos |-> pos]
    ELSE IF avail < n THEN [err |-> "ErrUnexpectedEOF", bytes |-> <<>>, pos |-> Len(data)]
    ELSE [err |-> "nil", bytes |-> SubSeq(data, pos + 1, pos + n), pos |-> pos + n]

\* A block header decoded from its 12 bytes.
BlockHeaderOf(bs) ==
    [NumRecords |-> LE32(SubSeq(bs, 1, 4)), Size |-> LE32(SubSeq(bs, 5, 8)),
     ID |-> LE16(SubSeq(bs, 9, 10)), Flags |-> LE16(SubSeq(bs, 11, 12))]

\* lzo.Decompress1X on the streams the model stores (LzoStore); any other
\* input is an error.
Decompress1X(body) ==
    IF body = <<17, 0, 0>> THEN [ok |-> TRUE, plain |-> <<>>]
    ELSE IF Len(body) >= 8 /\ body[1] = 17 + Len(body) - 4
            /\ SubSeq(body, Len(body) - 2, Len(body)) = <<17, 0, 0>>
    THEN [ok |-> TRUE, plain |-> SubSeq(body, 2, Len(body) - 3)]
    ELSE [ok |-> FALSE, plain |-> <<>>]

\* The selector with the BZ2 test ahead of the LZ4 test.
CompressionBZ2First(flags) ==
    IF BitAnd(flags, compressionMask) = 0 THEN "none"
    ELSE IF BitAnd(flags, lzoCompressed) > 0 THEN "lzo"
    ELSE IF BitAnd(flags, bz2Compressed) > 0 THEN "bz2"
    ELSE IF BitAnd(flags, lz4Compressed) > 0 THEN "lz4"
    ELSE "unsupported"

\* The branch of the decompression selector for these header flags.
Compression(flags) ==
    IF BitAnd(flags, compressionMask) = 0 THEN "none"
    ELSE IF BitAnd(flags, lzoCompressed) > 0 THEN "lzo"
    ELSE IF BitAnd(flags, lz4Compressed) > 0 THEN "lz4"
    ELSE IF BitAnd(flags, bz2Compressed) > 0 THEN "bz2"
    ELSE "unsupported"


(***************************************************************************)
(* The streaming reader: StreamReader and NFStream.Row.                    *)
(***************************************************************************)
\* The NFStream StreamReader constructs, before it reads anything.
\* No extension-map record handled yet.
NoMap == [size |-> 0, st |-> "none", read |-> 0]

NewStream ==
    [Header |-> [Magic |-> 0, Version |-> 0, Flags |-> 0, NumBlocks |-> 0],
     statRead |-> FALSE,
     pos |-> 0,
     blockHeader |-> [NumRecords |-> 0, Size |-> 0, ID |-> 0, Flags |-> 0],
     blockIndex |-> 0,
     blockRecordCount |-> 0,
     blockData |-> NilSlice,
     decompressedBlock |-> NilSlice,
     readNewBlock |-> TRUE,
     recordHeader |-> [Type |-> 0, Size |-> 0],
     start |-> 0,
     extMap |-> EmptyMap,
     Exporters |-> EmptyMap,
     ExporterStats |-> EmptyMap,
     SamplerInfo |-> EmptyMap,
     \* history, not fields of NFStream: for each mapID the non-zero IDs of
     \* the last extension-map record accepted for it, and the number of flow
     \* records returned from the current block; and of the last
     \* extension-map record handled its header size, how its loop ended and
     \* the number of IDs it read
     mapRecords |-> EmptyMap,
     blockFlows |-> 0,
     lastMap |-> NoMap]

\* StreamReader(r) on file f: [nfs, err].
StreamReader(f) ==
    IF f.preamble = "shortHeader"
    THEN [nfs |-> NewStream, err |-> "ErrFailedReadFileHeader"]
    ELSE LET n1 == [NewStream EXCEPT !.Header =
                       [Magic |-> f.Magic, Version |-> f.Version, Flags |-> f.Flags,
                        NumBlocks |-> f.NumBlocks]]
         IN IF n1.Header.Magic # magic THEN [nfs |-> n1, err |-> "ErrBadMagic"]
            ELSE IF n1.Header.Version # layoutVersion
            THEN [nfs |-> n1, err |-> "ErrUnsupportedFileVersion"]
            ELSE IF f.preamble = "shortStat"
            THEN [nfs |-> n1, err |-> "ErrFailedReadStatRecord"]
            ELSE [nfs |-> [n1 EXCEPT !.statRead = TRUE], err |-> "nil"]

\* The size check applied to the headers of non-flow records only.
IsCorruptSizeNonFlow(recordHeader) ==
    recordHeader.Size = 0 /\ recordHeader.Type # FlowRecordHeadType

\* The record header marks a corrupt file.
IsCorruptSize(recordHeader) == recordHeader.Size = 0

\* The end-of-block test passing one record early.
BlockDoneEarly(numRecords, blockRecordCount) == numRecords = blockRecordCount + 1

\* After a flow record: the block is finished.
RowBlockDone(numRecords, blockRecordCount) == numRecords = blockRecordCount

\* The cursor moved to the end of the bytes decoded.
FlowAdvanceByOffset(start, size, readOffset) == start + readOffset

\* The cursor after a flow record that was decoded up to readOffset.
FlowAdvance(start, size, readOffset) == start + size

\* The default case with the 4 header bytes added to the record size.
SkipPastHeader(start, size) == start + size + 4

\* The default case of the record switch: the cursor after a record of a
\* type that is not handled.
SkipUnknown(start, size) == start + size

\* The tables a record handler may change.
TablesOf(n) ==
    [extMap |-> n.extMap, Exporters |-> n.Exporters, SamplerInfo |-> n.SamplerInfo,
     ExporterStats |-> n.ExporterStats]

\* The error Row returns when the read of the block body fails with e.
RowBodyReadError(e) == IF e = "EOF" THEN "EOF" ELSE "ReadBlockFailed"

\* What a Row call hands back: the stream and heap it leaves, the record and
\* error it returns ("nil": a flow record; "panic": the call panicked), and
\* the record headers it read, in order: for each its cursor, the length of
\* the decompressed block, the header fields, the block index, the tables
\* as they were when it was read and, for a flow record that was decoded,
\* readOffset after the last extension.
RowRet(x, rec, err) ==
    [nfs |-> x.nfs, heap |-> x.heap, trace |-> x.trace, record |-> rec, err |-> err]

RECURSIVE RowNextBlock(_, _, _), RowNextRecord(_, _, _)
RECURSIVE RowBlockAt(_, _, _), RowRecordAt(_, _, _)

\* Row from the label NextBlock.  x = [nfs, heap, trace]; data is the byte
\* source; slack is the spare capacity the LZO output gets.
RowNextBlock(x, data, slack) ==
    CHOOSE res \in {RowBlockAt(v, data, slack) : v \in {x}} : TRUE

RowBlockAt(x, data, slack) ==
    IF ~x.nfs.readNewBlock THEN RowNextRecord(x, data, slack)
    ELSE
    LET n0 == [x.nfs EXCEPT !.readNewBlock = FALSE]
        hr == ReadFull(data, n0.pos, BlockHeaderSize)
    IN
    IF hr.err = "EOF" THEN RowRet([x EXCEPT !.nfs = n0], ZeroRecord, "EOF")
    ELSE IF hr.err # "nil"
    THEN RowRet([x EXCEPT !.nfs = [n0 EXCEPT !.pos = hr.pos]], ZeroRecord,
                "ErrFailedReadBlockHeader")
    ELSE
    LET bh == BlockHeaderOf(hr.bytes)
        grow == n0.blockData.len < bh.Size
        heap1 == IF grow THEN Alloc(x.heap, Zeros(bh.Size)) ELSE x.heap
        bd == IF grow THEN NewSlice(x.heap, bh.Size) ELSE n0.blockData
        n1 == [n0 EXCEPT !.blockHeader = bh, !.pos = hr.pos, !.blockIndex = @ + 1,
                         !.blockData = bd]
        br == ReadFull(data, n1.pos, bh.Size)
    IN
    IF br.err # "nil"
    THEN RowRet([x EXCEPT !.nfs = [n1 EXCEPT !.pos = br.pos], !.heap = heap1],
                ZeroRecord, RowBodyReadError(br.err))
    ELSE
    LET heap2 == IF bh.Size = 0 THEN heap1 ELSE Poke(heap1, bd.buf, bd.off, br.bytes)
        n2 == [n1 EXCEPT !.pos = br.pos]
        comp == Compression(n2.Header.Flags)
    IN
    IF bh.ID # 2
    THEN RowNextBlock([x EXCEPT !.nfs = [n2 EXCEPT !.readNewBlock = TRUE], !.heap = heap2],
                      data, slack)
    ELSE IF comp = "none"
    THEN RowNextRecord(
            [x EXCEPT !.heap = heap2,
                      !.nfs = [n2 EXCEPT !.decompressedBlock = [bd EXCEPT !.len = bh.Size],
                                         !.blockRecordCount = 0, !.start = 0,
                                         !.blockFlows = 0]],
            data, slack)
    ELSE IF comp = "lzo"
    THEN LET d == Decompress1X(br.bytes) IN
         IF ~d.ok
         THEN RowRet([x EXCEPT !.nfs = [n2 EXCEPT !.decompressedBlock = NilSlice],
                               !.heap = heap2], ZeroRecord, "LzoFailed")
         ELSE RowNextRecord(
                [x EXCEPT !.heap = Alloc(heap2, d.plain \o Zeros(slack)),
                          !.nfs = [n2 EXCEPT
                                     !.decompressedBlock =
                                        [buf |-> Len(heap2) + 1, off |-> 0,
                                         len |-> Len(d.plain), cap |-> Len(d.plain) + slack],
                                     !.blockRecordCount = 0, !.start = 0,
                                     !.blockFlows = 0]],
                data, slack)
    ELSE RowRet([x EXCEPT !.nfs = n2, !.heap = heap2], ZeroRecord,
                CASE comp = "lz4" -> "LZ4NotSupported"
                  [] comp = "bz2" -> "BZ2NotSupported"
                  [] OTHER        -> "UnsupportedCompression")

\* Row from the label NextRecord.
RowNextRecord(x, data, slack) ==
    CHOOSE res \in {RowRecordAt(v, data, slack) : v \in {x}} : TRUE

RowRecordAt(x, data, slack) ==
    LET n0 == [x.nfs EXCEPT !.blockRecordCount = @ + 1]
        d  == n0.decompressedBlock
        x0 == [x EXCEPT !.nfs = n0]
    IN
    IF ~(n0.start <= d.len /\ 4 <= d.cap - n0.start)
    THEN RowRet(x0, ZeroRecord, "panic")
    ELSE
    LET r  == From(d, n0.start)
        rh == [Type |-> LE16(RB(x.heap, r, 0, 2)), Size |-> LE16(RB(x.heap, r, 2, 4))]
        n1 == [n0 EXCEPT !.recordHeader = rh]
        x1 == [x EXCEPT !.nfs = n1,
                        !.trace = Append(@, [start |-> n0.start, dlen |-> d.len,
                                             Type |-> rh.Type, Size |-> rh.Size,
                                             block |-> n0.blockIndex,
                                             tables |-> TablesOf(n0), ro |-> 0])]
        adv == [n1 EXCEPT !.start = @ + rh.Size]
    IN
    IF IsCorruptSize(rh) THEN RowRet(x1, ZeroRecord, "CorruptRecordSize")
    ELSE IF rh.Type = ExtensionMapRecordHeadType
    THEN LET e == ExtMapRecord(x.heap, r, rh.Size, n1.extMap)
             n2 == [n1 EXCEPT !.extMap = e.extMap,
                              !.lastMap = [size |-> rh.Size, st |-> e.st, read |-> e.read]]
         IN CASE e.st = "panic" -> RowRet([x1 EXCEPT !.nfs = n2], ZeroRecord, "panic")
              [] e.st = "v2"    -> RowRet([x1 EXCEPT !.nfs = n2], ZeroRecord, "ExtMapV2")
              [] e.st = "badid" -> RowRet([x1 EXCEPT !.nfs = n2], ZeroRecord, "CorruptExtMapID")
              [] OTHER ->
                   RowNextRecord(
                      [x1 EXCEPT !.nfs =
                          [n2 EXCEPT !.start = @ + rh.Size,
                                     !.mapRecords = MapSet(@, LE16(RB(x.heap, r, 4, 6)),
                                                           NonZeroIDs(x.heap, r, rh.Size))]],
                      data, slack)
    ELSE IF rh.Type = ExporterInfoRecordHeadType
    THEN LET e == ExporterRecord(x.heap, r) IN
         IF ~e.ok THEN RowRet(x1, ZeroRecord, "panic")
         ELSE RowNextRecord(
                [x1 EXCEPT !.nfs = [adv EXCEPT !.Exporters =
                                      MapSet(@, ExporterKey(e.exporter), e.exporter)]],
                data, slack)
    ELSE IF rh.Type = SamplerInfoRecordHeadType
    THEN LET e == SamplerRecord(x.heap, r) IN
         IF ~e.ok THEN RowRet(x1, ZeroRecord, "panic")
         ELSE RowNextRecord(
                [x1 EXCEPT !.nfs = [adv EXCEPT !.SamplerInfo =
                                      MapSet(@, e.sampler.ExporterSysID, e.sampler)]],
                data, slack)
    ELSE IF rh.Type = EmptyRecordHeadType
    THEN RowNextBlock([x1 EXCEPT !.nfs = [n1 EXCEPT !.readNewBlock = TRUE]], data, slack)
    ELSE IF rh.Type = ExporterStatRecordHeadType
    THEN LET e == StatRecord(x.heap, r, n1.ExporterStats)
             n2 == [n1 EXCEPT !.ExporterStats = e.stats]
         IN IF ~e.ok THEN RowRet([x1 EXCEPT !.nfs = n2], ZeroRecord, "panic")
            ELSE RowNextBlock([x1 EXCEPT !.nfs = [n2 EXCEPT !.readNewBlock = TRUE]],
                              data, slack)
    ELSE IF rh.Type # FlowRecordHeadType
    THEN RowNextRecord([x1 EXCEPT !.nfs = [n1 EXCEPT !.start = SkipUnknown(@, rh.Size)]],
                       data, slack)
    ELSE
    CHOOSE res \in {
    CASE f.st = "panic" -> RowRet([x1 EXCEPT !.heap = f.heap], f.rec, "panic")
      [] f.st = "nomap" -> RowRet([x1 EXCEPT !.heap = f.heap], f.rec, "ExtNotInMap")
      [] OTHER ->
           RowRet([x1 EXCEPT !.heap = f.heap,
                             !.trace[Len(x1.trace)].ro = f.ro,
                             !.nfs = [n1 EXCEPT !.start = FlowAdvance(@, rh.Size, f.ro),
                                                !.blockFlows = @ + 1,
                                                 !.readNewBlock =
                                        IF RowBlockDone(n1.blockHeader.NumRecords,
                                                        n1.blockRecordCount)
                                        THEN TRUE ELSE @]],
                  f.rec, "nil")
      : f \in {DecodeFlow("row", x.heap, r, n1.extMap)}} : TRUE

\* One call of Row on stream nfs.
Row(nfs, heap, data, slack) ==
    RowNextBlock([nfs |-> nfs, heap |-> heap, trace |-> <<>>], data, slack)


(***************************************************************************)
(* The materializing reader ParseReader, one step per pass through its     *)
(* block loop and per pass through its record loop.  pc is "idle" before   *)
(* the call, "block" at the head of the for loop over blocks, "record" at  *)
(* the head of the record loop, "done" once it has returned (err holds the *)
(* error, "nil" for none) and "panic" if it panicked.                      *)
(***************************************************************************)
\* m[k]++ of a Go map of counters.
MapInc(m, k) == MapSet(m, k, (IF k \in DOMAIN m THEN m[k] ELSE 0) + 1)

RECURSIVE MapIncAll(_, _)
MapIncAll(m, ks) == IF ks = <<>> THEN m ELSE MapIncAll(MapInc(m, Head(ks)), Tail(ks))

NewParse ==
    [pc |-> "idle", err |-> "nil",
     Header |-> [Magic |-> 0, Version |-> 0, Flags |-> 0, NumBlocks |-> 0],
     statRead |-> FALSE,
     Records |-> <<>>,
     Meta |-> [RecordIDCount |-> EmptyMap, BlockIDCount |-> EmptyMap,
               IPv6Count |-> 0, IPv4Count |-> 0, ExtUsage |-> EmptyMap],
     Exporters |-> EmptyMap, ExporterStats |-> EmptyMap, SamplerInfo |-> EmptyMap,
     pos |-> 0, blockIndex |-> 0,
     blockHeader |-> [NumRecords |-> 0, Size |-> 0, ID |-> 0, Flags |-> 0],
     blockRecordCount |-> 0, decompressedBlock |-> NilSlice, start |-> 0,
     extMap |-> EmptyMap, recordHeader |-> [Type |-> 0, Size |-> 0],
     readOffset |-> 0,
     \* history, not variables of ParseReader: the block headers read, for
     \* each mapID the non-zero IDs of the last extension-map record accepted
     \* for it, the number of flow records appended from the current block,
     \* and the cursor, the tables and the number of Records as they were when
     \* the last record header was read
     headersRead |-> 0, mapRecords |-> EmptyMap, blockFlows |-> 0, lastMap |-> NoMap,
     headerAt |-> [start |-> 0, tables |-> TablesOf(NewStream), records |-> 0]]

\* errors.Wrap(err, msg) of github.com/pkg/errors: nil when err is nil.
ErrorsWrap(err, msg) == IF err = "nil" THEN "nil" ELSE msg

\* The error ParseReader returns for a layout version it does not support:
\* errors.Wrap of err, which is nil after the header has been read.
ParseVersionError(err) == ErrorsWrap(err, "UnsupportedFileVersion")

\* ParseReader from its entry to the head of the block loop.
ParseHeader(p, f) ==
    IF f.preamble = "shortHeader"
    THEN [p EXCEPT !.pc = "done", !.err = "FailedReadHeader"]
    ELSE LET p1 == [p EXCEPT !.Header =
                      [Magic |-> f.Magic, Version |-> f.Version, Flags |-> f.Flags,
                       NumBlocks |-> f.NumBlocks]]
         IN IF p1.Header.Magic # magic THEN [p1 EXCEPT !.pc = "done", !.err = "ErrBadMagic"]
            ELSE IF p1.Header.Version # layoutVersion
            THEN [p1 EXCEPT !.pc = "done", !.err = ParseVersionError("nil")]
            ELSE IF f.preamble = "shortStat"
            THEN [p1 EXCEPT !.pc = "done", !.err = "FailedReadStatRecord"]
            ELSE [p1 EXCEPT !.statRead = TRUE, !.pc = "block", !.blockIndex = 1]

\* The block index the loop continues with after a block that is skipped
\* because its id is not 2: goto NextBlock runs the for statement again,
\* init statement included.
ParseSkipIndex(blockIndex) == 1

\* One pass of the for loop over blocks, up to the head of the record loop.
\* Result [p, heap].
ParseBlock(p, heap, data, slack) ==
    IF ~(p.blockIndex <= p.Header.NumBlocks) THEN [p |-> [p EXCEPT !.pc = "done"], heap |-> heap]
    ELSE
    LET hr == ReadFull(data, p.pos, BlockHeaderSize) IN
    IF hr.err # "nil"
    THEN [p |-> [p EXCEPT !.pc = "done", !.err = "FailedReadBlockHeader", !.pos = hr.pos],
          heap |-> heap]
    ELSE
    LET bh == BlockHeaderOf(hr.bytes)
        p1 == [p EXCEPT !.blockHeader = bh, !.pos = hr.pos, !.headersRead = @ + 1,
                        !.Meta.BlockIDCount = MapInc(@, bh.ID)]
        br == ReadFull(data, p1.pos, bh.Size)
    IN
    IF br.err # "nil"
    THEN [p |-> [p1 EXCEPT !.pc = "done", !.err = "ReadBlockFailed", !.pos = br.pos],
          heap |-> heap]
    ELSE
    LET p2 == [p1 EXCEPT !.pos = br.pos]
        comp == Compression(p2.Header.Flags)
    IN
    IF bh.ID # 2
    THEN [p |-> [p2 EXCEPT !.blockIndex = ParseSkipIndex(@)], heap |-> heap]
    ELSE IF comp = "none"
    THEN [p |-> [p2 EXCEPT !.decompressedBlock = NewSlice(heap, bh.Size),
                           !.blockRecordCount = 0, !.start = 0, !.pc = "record",
                           !.blockFlows = 0],
          heap |-> Alloc(heap, br.bytes)]
    ELSE IF comp = "lzo"
    THEN LET d == Decompress1X(br.bytes) IN
         IF ~d.ok THEN [p |-> [p2 EXCEPT !.pc = "done", !.err = "LzoFailed",
                                         !.decompressedBlock = NilSlice],
                        heap |-> heap]
         ELSE [p |-> [p2 EXCEPT !.decompressedBlock =
                                   [buf |-> Len(heap) + 1, off |-> 0, len |-> Len(d.plain),
                                    cap |-> Len(d.plain) + slack],
                                !.blockRecordCount = 0, !.start = 0, !.pc = "record",
                                !.blockFlows = 0],
               heap |-> Alloc(heap, d.plain \o Zeros(slack))]
    ELSE [p |-> [p2 EXCEPT !.pc = "done",
                           !.err = CASE comp = "lz4" -> "LZ4NotSupported"
                                     [] comp = "bz2" -> "BZ2NotSupported"
                                     [] OTHER        -> "UnsupportedCompression"],
          heap |-> heap]

\* continue NextBlock: the post statement of the for loop, then its head.
ParseContinueBlock(p) == [p EXCEPT !.pc = "block", !.blockIndex = @ + 1]

\* After a flow record has been appended: the block is finished.
ParseBlockDone(numRecords, blockRecordCount) == numRecords = blockRecordCount

\* One pass of the record loop.  Result [p, heap].
ParseRecord(p, heap) ==
    LET p0 == [p EXCEPT !.blockRecordCount = @ + 1]
        d  == p0.decompressedBlock
    IN
    IF ~(p0.start <= d.len /\ 4 <= d.cap - p0.start)
    THEN [p |-> [p0 EXCEPT !.pc = "panic"], heap |-> heap]
    ELSE
    LET r  == From(d, p0.start)
        rh == [Type |-> LE16(RB(heap, r, 0, 2)), Size |-> LE16(RB(heap, r, 2, 4))]
        p1 == [p0 EXCEPT !.recordHeader = rh, !.Meta.RecordIDCount = MapInc(@, rh.Type),
                         !.headerAt = [start |-> p0.start, tables |-> TablesOf(p0),
                                       records |-> Len(p0.Records)]]
        adv == [p1 EXCEPT !.start = @ + rh.Size]
    IN
    IF rh.Type = 2
    THEN LET e == ExtMapRecord(heap, r, rh.Size, p1.extMap)
             p2 == [p1 EXCEPT !.extMap = e.extMap,
                              !.Meta.ExtUsage = MapIncAll(@, e.used),
                              !.lastMap = [size |-> rh.Size, st |-> e.st, read |-> e.read]]
         IN [p |-> CASE e.st = "panic" -> [p2 EXCEPT !.pc = "panic"]
                     [] e.st = "v2"    -> [p2 EXCEPT !.pc = "done", !.err = "ExtMapV2"]
                     [] e.st = "badid" -> [p2 EXCEPT !.pc = "done", !.err = "CorruptExtMapID"]
                     [] OTHER          ->
                          [p2 EXCEPT !.start = @ + rh.Size,
                                     !.mapRecords = MapSet(@, LE16(RB(heap, r, 4, 6)),
                                                           NonZeroIDs(heap, r, rh.Size))],
             heap |-> heap]
    ELSE IF rh.Type = 7
    THEN LET e == ExporterRecord(heap, r) IN
         [p |-> IF ~e.ok THEN [p1 EXCEPT !.pc = "panic"]
                ELSE [adv EXCEPT !.Exporters = MapSet(@, ExporterKey(e.exporter), e.exporter)],
          heap |-> heap]
    ELSE IF rh.Type = 9
    THEN LET e == SamplerRecord(heap, r) IN
         [p |-> IF ~e.ok THEN [p1 EXCEPT !.pc = "panic"]
                ELSE [adv EXCEPT !.SamplerInfo =
                        MapSet(@, e.sampler.ExporterSysID, e.sampler)],
          heap |-> heap]
    ELSE IF rh.Type = 0
    THEN [p |-> ParseContinueBlock(p1), heap |-> heap]
    ELSE IF rh.Type = 8
    THEN LET e == StatRecord(heap, r, p1.ExporterStats)
             p2 == [p1 EXCEPT !.ExporterStats = e.stats]
         IN [p |-> IF ~e.ok THEN [p2 EXCEPT !.pc = "panic"] ELSE ParseContinueBlock(p2),
             heap |-> heap]
    ELSE IF rh.Type # 10
    THEN [p |-> [p1 EXCEPT !.start = SkipUnknown(@, rh.Size)], heap |-> heap]
    ELSE
    CHOOSE res \in {
    LET v6 == f.rec.Flags % 2 = 1
        p2 == IF 32 <= r.cap /\ 23 < r.len
              THEN [p1 EXCEPT !.Meta.IPv6Count = IF v6 THEN @ + 1 ELSE @,
                              !.Meta.IPv4Count = IF v6 THEN @ ELSE @ + 1]
              ELSE p1
    IN
    CASE f.st = "panic" -> [p |-> [p1 EXCEPT !.pc = "panic"], heap |-> f.heap]
      [] f.st = "nomap" -> [p |-> [p2 EXCEPT !.pc = "done", !.err = "ExtNotInMap"],
                            heap |-> f.heap]
      [] OTHER ->
           LET p3 == [p2 EXCEPT !.start = FlowAdvance(@, rh.Size, f.ro),
                                !.Records = Append(@, f.rec),
                                !.readOffset = f.ro, !.blockFlows = @ + 1] IN
           [p |-> IF ParseBlockDone(p3.blockHeader.NumRecords, p3.blockRecordCount)
                  THEN ParseContinueBlock(p3) ELSE p3,
            heap |-> f.heap]
      : f \in {DecodeFlow("parse", heap, r, p1.extMap)}} : TRUE


(***************************************************************************)
(* NFRecord.ReceivedTime.  A time.Time is kept as the pair time.Unix       *)
(* builds: whole seconds since the epoch and nanoseconds within the second.*)
(***************************************************************************)
\* A uint64 held as two 32-bit halves, divided by 1000 and its remainder
\* (2^32 = 4294967 * 1000 + 296).
Div1000(u) == u.hi * 4294967 + (u.hi * 296 + u.lo) \div 1000
Rem1000(u) == (u.hi * 296 + u.lo) % 1000

\* time.Unix(sec, nsec): nsec outside [0, 999999999] is carried into sec.
UnixTime(sec, nsec) ==
    [called |-> TRUE, sec |-> sec + nsec \div 1000000000, nsec |-> nsec % 1000000000]

\* r.ReceivedTime().
ReceivedTime(r) ==
    IF r.Received = Zero64 THEN UnixTime(0, 0)
    ELSE LET seconds == Div1000(r.Received)
         IN UnixTime(seconds, Rem1000(r.Received))

\* No call of ReceivedTime yet.
NoTime == [called |-> FALSE, sec |-> 0, nsec |-> 0]

\* The Received values ReceivedTime is applied to: small ones, and ones of
\* the year 2019 (high half 364).
ReceivedValues == {[lo |-> l, hi |-> h] : l \in 0..MaxReceivedLo, h \in {0, 364}}

(***************************************************************************)
(* The state machine: one input file, read by ParseReader and, through     *)
(* StreamReader, by successive Row calls.                                  *)
(***************************************************************************)
VARIABLES
    file,       \* the input file
    heap,       \* the arrays allocated so far
    pr,         \* ParseReader: its position, locals and result
    nfs,        \* the NFStream
    nfsSt,      \* "none": not opened; "open"; "failed": StreamReader returned
                \* an error; "crashed": a Row call panicked
    openErr,    \* the error StreamReader returned
    rets,       \* the error of every Row call so far, in order
    rows,       \* the flow records Row has returned, as the caller holds them
    snaps,      \* those records' values at the moment each was returned
    lastTrace,  \* the record headers the last Row call read
    lastRecord, \* the record the last Row call returned
    recvTime    \* the time ReceivedTime returned for lastRecord

vars == <<file, heap, pr, nfs, nfsSt, openErr, rets, rows, snaps, lastTrace, lastRecord,
          recvTime>>

\* The spare capacity the LZO decompressor's output may have in this file.
SlackChoices(f) == IF Compression(f.Flags) = "lzo" THEN {0, LzoSlack} ELSE {0}

\* The number of Row calls made after the first one that returned no record.
RECURSIVE FirstEnd(_, _)
FirstEnd(rs, i) ==
    IF i > Len(rs) THEN 0 ELSE IF rs[i] # "nil" THEN i ELSE FirstEnd(rs, i + 1)
ExtraRows(rs) == IF FirstEnd(rs, 1) = 0 THEN 0 ELSE Len(rs) - FirstEnd(rs, 1)

Init ==
    /\ file \in Files
    /\ heap = <<>>
    /\ pr = NewParse
    /\ nfs = NewStream
    /\ nfsSt = "none"
    /\ openErr = "nil"
    /\ rets = <<>>
    /\ rows = <<>>
    /\ snaps = <<>>
    /\ lastTrace = <<>>
    /\ lastRecord = ZeroRecord
    /\ recvTime = NoTime

\* ParseReader is called and reads the file header and the stat record.
ParseStart ==
    /\ pr.pc = "idle"
    /\ nfsSt = "none"
    /\ pr' = ParseHeader(pr, file)
    /\ UNCHANGED <<file, heap, nfs, nfsSt, openErr, rets, rows, snaps, lastTrace, lastRecord,
                 recvTime>>

\* ParseReader reads the next block.
ParseBlockStep ==
    /\ pr.pc = "block"
    /\ \E slack \in SlackChoices(file) :
       \E res \in {ParseBlock(pr, heap, file.data, slack)} :
          /\ pr' = res.p
          /\ heap' = res.heap
    /\ UNCHANGED <<file, nfs, nfsSt, openErr, rets, rows, snaps, lastTrace, lastRecord,
                 recvTime>>

\* ParseReader dispatches the next record of the block.
ParseRecordStep ==
    /\ pr.pc = "record"
    /\ pr.blockRecordCount < MaxLoop
    /\ \E res \in {ParseRecord(pr, heap)} :
          /\ pr' = res.p
          /\ heap' = res.heap
    /\ UNCHANGED <<file, nfs, nfsSt, openErr, rets, rows, snaps, lastTrace, lastRecord,
                 recvTime>>

\* StreamReader is called on the file.
Open ==
    /\ nfsSt = "none"
    /\ pr.pc \in {"idle", "done", "panic"}
    /\ \E res \in {StreamReader(file)} :
          /\ nfs' = res.nfs
          /\ openErr' = res.err
          /\ nfsSt' = IF res.err = "nil" THEN "open" ELSE "failed"
    /\ UNCHANGED <<file, heap, pr, rets, rows, snaps, lastTrace, lastRecord, recvTime>>

\* One Row call on the open stream.
RowCall ==
    /\ nfsSt = "open"
    /\ ExtraRows(rets) < MaxExtraRows
    /\ \E slack \in SlackChoices(file) :
       \E res \in {Row(nfs, heap, file.data, slack)} :
          /\ nfs' = res.nfs
          /\ heap' = res.heap
          /\ rets' = Append(rets, res.err)
          /\ lastTrace' = res.trace
          /\ lastRecord' = res.record
          /\ nfsSt' = IF res.err = "panic" THEN "crashed" ELSE "open"
          /\ rows' = IF res.err = "nil" THEN Append(rows, res.record) ELSE rows
          /\ snaps' = IF res.err = "nil" THEN Append(snaps, RecVal(res.heap, res.record))
                      ELSE snaps
    /\ UNCHANGED <<file, pr, openErr, recvTime>>

Next == ParseStart \/ ParseBlockStep \/ ParseRecordStep \/ Open \/ RowCall

Spec == Init /\ [][Next]_vars

(***************************************************************************)
(* ReceivedTime on its own: a record with any of the Received values, and  *)
(* one call.                                                               *)
(***************************************************************************)
InitTime ==
    /\ file = WholeFile(0, <<>>)
    /\ heap = <<>>
    /\ pr = NewParse
    /\ nfs = NewStream
    /\ nfsSt = "none"
    /\ openErr = "nil"
    /\ rets = <<>>
    /\ rows = <<>>
    /\ snaps = <<>>
    /\ lastTrace = <<>>
    /\ lastRecord \in {[ZeroRecord EXCEPT !.Received = u] : u \in ReceivedValues}
    /\ recvTime = NoTime

ReceivedTimeCall ==
    /\ ~recvTime.called
    /\ recvTime' = ReceivedTime(lastRecord)
    /\ UNCHANGED <<file, heap, pr, nfs, nfsSt, openErr, rets, rows, snaps, lastTrace,
                   lastRecord>>

NextTime == ReceivedTimeCall

SpecTime == InitTime /\ [][NextTime]_vars

(***************************************************************************)
(* Properties of the readers.                                              *)
(***************************************************************************)
\* The error the last Row call returned.
LastRet == rets[Len(rets)]

\* Every Row call so far has returned a record, except the last.
JustEnded == rets # <<>> /\ FirstEnd(rets, 1) = Len(rets)

\* Sequences of at most n blocks drawn from bs.
SeqsOf(bs, n) == UNION {[1..k -> bs] : k \in 0..n}

\* The id-2 blocks that are well formed and end with a flow record or the
\* sentinel, and the files made of them and of blocks of another id.
CleanBlocks == {FlowBlock, MixedBlock, SentinelBlock}
WellFormedFiles ==
    {WholeFile(fl, bs) : fl \in {0, lzoCompressed},
                         bs \in SeqsOf(CleanBlocks \cup {ForeignBlock}, MaxBlocks)}

\* The well-formed files whose last block is the block of metadata records.
MetaLastFiles ==
    {WholeFile(fl, bs \o <<MetaBlock>>) : fl \in {0, lzoCompressed},
                                          bs \in SeqsOf(CleanBlocks, MaxBlocks - 1)}

\* recs are decoded from the flow records the file holds, one each, in order
\* (First is read from bytes 12..15 of a flow record).
SameFlows(recs) ==
    /\ Len(recs) = Len(file.flows)
    /\ \A k \in 1..Len(recs) : recs[k].First = LE32(SubSeq(file.flows[k], 13, 16))

\* Byte offset pos of data is where a block ends (or 0), walking the block
\* headers from offset p.
RECURSIVE BlockBoundary(_, _, _)
BlockBoundary(data, p, pos) ==
    IF p = pos THEN TRUE
    ELSE IF p > pos \/ p + BlockHeaderSize > Len(data) THEN FALSE
    ELSE BlockBoundary(data, p + BlockHeaderSize + LE32(SubSeq(data, p + 5, p + 8)), pos)

\* C1: when a Row call reads a record header whose size field is 0, that
\* header is the last one the call reads (the call does not loop on it), and
\* the call returns the corrupt-record-size error, not io.EOF, together with
\* no flow record.
C1_RowCorruptSize ==
    \A i \in 1..Len(lastTrace) :
        lastTrace[i].Size = 0 =>
            /\ i = Len(lastTrace)
            /\ LastRet = "CorruptRecordSize"
            /\ lastRecord = ZeroRecord

\* C1, its case: a Row call has skipped an extension map, reached a flow
\* record header of size 0 and returned the corrupt-record-size error.
C1_Witness ==
    /\ Len(lastTrace) = 2
    /\ lastTrace[2].Type = FlowRecordHeadType
    /\ lastTrace[2].Size = 0
    /\ LastRet = "CorruptRecordSize"

\* C2: once ParseReader has returned without error and Row has been called up
\* to io.EOF on the same file, ParseReader's Records and the records Row
\* returned are the same sequence, field for field.
C2_SameRecords ==
    (pr.pc = "done" /\ pr.err = "nil" /\ pr.statRead /\ JustEnded /\ LastRet = "EOF")
        => /\ Len(pr.Records) = Len(snaps)
           /\ \A i \in 1..Len(snaps) : RecVal(heap, pr.Records[i]) = snaps[i]

\* C3: on a file whose magic is wrong, or whose magic is right and whose
\* version is not 1, ParseReader and StreamReader each return an error (bad
\* magic, else unsupported version), read neither the stat record nor any
\* block, and produce no record.
C3_HeaderValidation ==
    (file.preamble = "ok" /\ (file.Magic # magic \/ file.Version # layoutVersion))
        => /\ pr.pc # "idle" =>
                /\ pr.pc = "done"
                /\ pr.err = (IF file.Magic # magic THEN "ErrBadMagic"
                             ELSE "UnsupportedFileVersion")
                /\ ~pr.statRead /\ pr.headersRead = 0 /\ pr.Records = <<>>
           /\ nfsSt # "none" =>
                /\ nfsSt = "failed"
                /\ openErr = (IF file.Magic # magic THEN "ErrBadMagic"
                              ELSE "ErrUnsupportedFileVersion")
                /\ ~nfs.statRead /\ nfs.pos = 0 /\ rows = <<>>

\* C4: on a well-formed file, blocks of another id included, ParseReader
\* returns no error, has read exactly NumBlocks block headers and holds the
\* flow records of the id-2 blocks; and Row returns those records and then
\* io.EOF, having read NumBlocks blocks.
C4_SkippedBlock ==
    file \in WellFormedFiles
        => /\ pr.pc = "done" =>
                /\ pr.err = "nil"
                /\ pr.headersRead = file.NumBlocks
                /\ SameFlows(pr.Records)
           /\ JustEnded =>
                /\ LastRet = "EOF"
                /\ nfs.blockIndex = file.NumBlocks
                /\ SameFlows(rows)

\* C5: once ParseReader has read a record header whose size field is 0, it
\* has returned the corrupt-record-size error.
C5_ParseCorruptSize ==
    (DOMAIN pr.Meta.RecordIDCount # {} /\ pr.recordHeader.Size = 0)
        => pr.pc = "done" /\ pr.err = "CorruptRecordSize"

\* C6: when a file is read to its end without error, the records emitted -
\* ParseReader's Records, and the records Row returned before io.EOF - are
\* the type-10 records of the id-2 blocks, each once, in file order.
C6_FlowsOnce ==
    /\ (pr.pc = "done" /\ pr.err = "nil" /\ pr.statRead) => SameFlows(pr.Records)
    /\ (JustEnded /\ LastRet = "EOF") => SameFlows(rows)

\* C7: a Row call returns io.EOF only when the byte source is exhausted at a
\* block boundary.
C7_EOFAtBoundary ==
    (rets # <<>> /\ LastRet = "EOF")
        => nfs.pos = Len(file.data) /\ BlockBoundary(file.data, 0, nfs.pos)

\* C8: after a Row call has returned io.EOF, every later Row call returns
\* io.EOF.
C8_EOFSticky ==
    \A i \in 1..Len(rets) : \A j \in 1..Len(rets) :
        (i < j /\ rets[i] = "EOF") => rets[j] = "EOF"

\* C9: on a well-formed file whose last block holds only metadata records,
\* the first Row call that returns no record returns io.EOF, after all the
\* flow records, and reads no record header at or beyond the end of the
\* decompressed block.
C9_MetaOnlyLastBlock ==
    (file \in MetaLastFiles /\ JustEnded)
        => /\ LastRet = "EOF"
           /\ SameFlows(rows)
           /\ \A i \in 1..Len(lastTrace) : lastTrace[i].start < lastTrace[i].dlen

\* C10: while every Row call returns a record, each record returned earlier
\* still reads as it did when it was returned.
C10_RecordOwned ==
    (\A k \in 1..Len(rets) : rets[k] = "nil")
        => \A i \in 1..Len(rows) : RecVal(heap, rows[i]) = snaps[i]

\* Byte offset of data just after the first block of id 2, walking the
\* block headers from offset p.
RECURSIVE FirstFlowBlockEnd(_, _)
FirstFlowBlockEnd(data, p) ==
    LET bh == BlockHeaderOf(SubSeq(data, p + 1, p + BlockHeaderSize))
        e  == p + BlockHeaderSize + bh.Size
    IN IF bh.ID = 2 THEN e ELSE FirstFlowBlockEnd(data, e)

\* The error for a compression that is not supported, from the header flags.
UnsupportedError(flags) ==
    IF BitAnd(flags, lz4Compressed) > 0 THEN "LZ4NotSupported" ELSE "BZ2NotSupported"

\* C11: on a file whose header flags have the LZO bit clear and the LZ4 or
\* the BZ2 bit set, ParseReader returns at the first id-2 block with the
\* unsupported-compression error (LZ4 when its bit is set, else BZ2) and the
\* first Row call returns that error; neither produces a flow record, then
\* or later, and neither reads beyond the end of that block.
C11_UnsupportedCompression ==
    file.Flags \in UnsupportedFlags
        => /\ pr.pc \notin {"record", "panic"}
           /\ pr.Records = <<>>
           /\ pr.pos <= FirstFlowBlockEnd(file.data, 0)
           /\ pr.pc = "done" =>
                /\ pr.err = UnsupportedError(file.Flags)
                /\ pr.pos = FirstFlowBlockEnd(file.data, 0)
           /\ rows = <<>>
           /\ rets # <<>> =>
                /\ rets[1] = UnsupportedError(file.Flags)
                /\ nfs.pos = FirstFlowBlockEnd(file.data, 0)
                /\ \A k \in 1..Len(rets) : rets[k] # "nil"

\* C11, its case: a file with both the LZ4 and the BZ2 bit set and a block of
\* another id ahead of the id-2 block; ParseReader has returned and Row has
\* been called.
C11_Witness ==
    /\ file.Flags = bz2Compressed + lz4Compressed
    /\ file.NumBlocks = 2
    /\ pr.headersRead = 2
    /\ pr.pc = "done" /\ pr.err = "LZ4NotSupported"
    /\ rets # <<>> /\ rets[1] = "LZ4NotSupported"
    /\ nfs.blockIndex = 2

\* The mapID field (bytes 6..7) of the flow record at cursor start of the
\* decompressed block d.
FlowMapID(h, d, start) == LE16(RB(h, From(d, start), 6, 8))

\* C12: a flow record fails with the unknown-extension-map error exactly
\* when no extension-map record for its mapID has been accepted before it: a
\* Row call whose last header is a flow record returns that error if the
\* mapID has no accepted map record and a record otherwise, and ParseReader
\* returns that error only at a flow record whose mapID has none; with the
\* error no record is emitted.
C12_ExtensionNotInMap ==
    /\ (rets # <<>> /\ lastTrace # <<>> /\ LastRet \in {"nil", "ExtNotInMap"})
          => LET ev == lastTrace[Len(lastTrace)]
                 mapID == FlowMapID(heap, nfs.decompressedBlock, ev.start)
             IN /\ ev.Type = FlowRecordHeadType
                /\ (LastRet = "ExtNotInMap") <=> (mapID \notin DOMAIN nfs.mapRecords)
    /\ \A k \in 1..Len(rets) : rets[k] = "ExtNotInMap" => Len(rows) < k
    /\ (pr.pc = "done" /\ pr.err = "ExtNotInMap")
          => /\ pr.recordHeader.Type = FlowRecordHeadType
             /\ FlowMapID(heap, pr.decompressedBlock, pr.start) \notin DOMAIN pr.mapRecords

\* What the claim says of the extension-map record of this size at cursor
\* start of the decompressed block d: "v2" when its extSize is 0, else
\* "badid" when one of the IDs it lists is above 48, else "ok".
MapVerdict(h, d, start, size) ==
    LET r == From(d, start)
        ids == ListedIDs(h, r, size)
    IN IF LE16(RB(h, r, 6, 8)) = 0 THEN "v2"
       ELSE IF \E k \in 1..Len(ids) : ids[k] > MaxExtID THEN "badid"
       ELSE "ok"

\* C13: an extension-map record that lies inside its block is rejected if
\* and only if its extSize is 0 (error: v2 map) or one of its listed IDs is
\* above 48 (error: corrupt ID); otherwise the reader goes on with the record
\* header at cursor + size.  For Row the records are those the last call read
\* in the block the stream is at; for ParseReader the record is the one of
\* the last step.
C13_ExtMapRejected ==
    /\ \A i \in 1..Len(lastTrace) :
          LET ev == lastTrace[i] IN
          (/\ ev.Type = ExtensionMapRecordHeadType
           /\ ev.block = nfs.blockIndex
           /\ ev.Size >= 8 /\ ev.start + ev.Size <= ev.dlen)
             => LET v == MapVerdict(heap, nfs.decompressedBlock, ev.start, ev.Size) IN
                CASE v = "v2"    -> i = Len(lastTrace) /\ LastRet = "ExtMapV2"
                  [] v = "badid" -> i = Len(lastTrace) /\ LastRet = "CorruptExtMapID"
                  [] OTHER ->
                       IF i < Len(lastTrace)
                       THEN /\ lastTrace[i + 1].start = ev.start + ev.Size
                            /\ lastTrace[i + 1].block = ev.block
                       ELSE LastRet = "panic" /\ nfs.start = ev.start + ev.Size
    /\ (/\ pr.recordHeader.Type = ExtensionMapRecordHeadType
        /\ pr.recordHeader.Size >= 8
        /\ pr.pc \in {"record", "done"})
          => IF pr.pc = "record"
             THEN pr.start - pr.recordHeader.Size >= 0
                  /\ MapVerdict(heap, pr.decompressedBlock,
                                pr.start - pr.recordHeader.Size, pr.recordHeader.Size) = "ok"
             ELSE LET v == MapVerdict(heap, pr.decompressedBlock, pr.start,
                                      pr.recordHeader.Size)
                  IN pr.err = (CASE v = "v2" -> "ExtMapV2"
                                 [] v = "badid" -> "CorruptExtMapID"
                                 [] OTHER -> "none")

\* C13, its case: both readers have rejected the map record that lists ID 49
\* after ID 9.
C13_Witness ==
    /\ file = WholeFile(0, <<BadIDBlock>>)
    /\ pr.pc = "done" /\ pr.err = "CorruptExtMapID" /\ pr.start = 0
    /\ rets = <<"CorruptExtMapID">>
    /\ Len(lastTrace) = 1

\* extMap[m] as Go reads it: the nil list for a key that is absent.
StoredList(extMap, m) == IF m \in DOMAIN extMap THEN extMap[m] ELSE <<>>

\* C14: while no extension-map record has been rejected, the list the reader
\* holds for each mapID is the non-zero IDs of the last extension-map record
\* accepted for it, in record order (earlier records for the mapID, records
\* for other mapIDs and a repeated record make no difference).
C14_MapIsLastRecord ==
    /\ (\A k \in 1..Len(rets) : rets[k] \notin {"CorruptExtMapID", "ExtMapV2", "panic"})
          => \A m \in DOMAIN nfs.mapRecords :
                StoredList(nfs.extMap, m) = nfs.mapRecords[m]
    /\ (pr.pc \in {"block", "record"} \/ (pr.pc = "done" /\ pr.err = "nil"))
          => \A m \in DOMAIN pr.mapRecords :
                StoredList(pr.extMap, m) = pr.mapRecords[m]

\* C14, its case: both readers have walked the block that defines map 1
\* twice with IDs 9 0 and then with IDs 4 6, and hold the list 4 6.
C14_Witness ==
    /\ file = WholeFile(0, <<RemapBlock>>)
    /\ pr.pc = "done" /\ pr.err = "nil" /\ Len(pr.Records) = 2
    /\ pr.extMap[1] = <<4, 6>>
    /\ rets = <<"nil", "nil">>
    /\ nfs.extMap[1] = <<4, 6>>
    /\ nfs.mapRecords[1] = <<4, 6>>

\* C15: the readers do not panic; every record header a Row call reads is
\* read at a cursor with cursor + 4 <= length of the decompressed block; and
\* for every flow record decoded, readOffset after the last extension is at
\* most the record's size and cursor + readOffset is at most the length of
\* the decompressed block.
C15_DecoderBounds ==
    /\ nfsSt # "crashed"
    /\ pr.pc # "panic"
    /\ \A i \in 1..Len(lastTrace) :
          LET ev == lastTrace[i] IN
          /\ ev.start + 4 <= ev.dlen
          /\ ev.ro > 0 => ev.ro <= ev.Size /\ ev.start + ev.ro <= ev.dlen
    /\ (/\ pr.recordHeader.Type = FlowRecordHeadType
        /\ pr.pc = "record" /\ pr.blockRecordCount > 0)
          => /\ pr.readOffset <= pr.recordHeader.Size
             /\ pr.start - pr.recordHeader.Size + pr.readOffset <= pr.decompressedBlock.len

\* C16: the time ReceivedTime returns is Received milliseconds after the
\* epoch: its whole seconds are Received / 1000 and its nanoseconds within
\* the second are (Received mod 1000) * 10^6.
C16_ReceivedTime ==
    recvTime.called
        => /\ recvTime.sec = Div1000(lastRecord.Received)
           /\ recvTime.nsec = Rem1000(lastRecord.Received) * 1000000

\* Flags bit 0 of record rec is set and its SrcIP and DstIP hold 16 bytes
\* each, or the bit is clear and they hold 4 bytes each.
AddrsMatchFlags(h, rec) ==
    LET n == IF rec.Flags % 2 = 1 THEN 16 ELSE 4
    IN /\ rec.SrcIP.len = n /\ Len(IPBytes(h, rec.SrcIP)) = n
       /\ rec.DstIP.len = n /\ Len(IPBytes(h, rec.DstIP)) = n

\* C17: in every flow record ParseReader has appended and every record Row
\* has returned, SrcIP and DstIP have length 16 when bit 0 of Flags is set and
\* length 4 when it is clear.
C17_AddrLengths ==
    /\ \A i \in 1..Len(pr.Records) : AddrsMatchFlags(heap, pr.Records[i])
    /\ \A i \in 1..Len(rows) : AddrsMatchFlags(heap, rows[i])

\* C17, its case: both readers have emitted an IPv6 record and then an IPv4
\* record.
C17_Witness ==
    /\ Len(pr.Records) >= 2 /\ Len(rows) >= 2
    /\ pr.Records[1].Flags = 1 /\ pr.Records[1].SrcIP.len = 16
    /\ pr.Records[2].Flags = 0 /\ pr.Records[2].DstIP.len = 4
    /\ rows[1].Flags = 1 /\ rows[1].DstIP.len = 16
    /\ rows[2].Flags = 0 /\ rows[2].SrcIP.len = 4

\* The number of records of the decompressed block d that lie before cursor
\* stop, walking the record headers from cursor p by their size fields.
RECURSIVE RecordsBefore(_, _, _, _)
RecordsBefore(h, d, p, stop) ==
    IF p >= stop \/ p + 4 > d.cap THEN 0
    ELSE IF LE16(RB(h, From(d, p), 2, 4)) = 0 THEN 0
    ELSE 1 + RecordsBefore(h, d, p + LE16(RB(h, From(d, p), 2, 4)), stop)

\* C18 as stated: right after a flow record the block is ended exactly when
\* the number of flow records emitted from the block equals
\* blockHeader.numRecords (records of other types not counted).
C18_EndsAtFlowCount ==
    /\ (rets # <<>> /\ LastRet = "nil")
          => (nfs.readNewBlock <=> nfs.blockFlows = nfs.blockHeader.NumRecords)
    /\ (/\ pr.recordHeader.Type = FlowRecordHeadType
        /\ pr.blockHeader.ID = 2
        /\ pr.pc = "block" \/ (pr.pc = "record" /\ pr.blockRecordCount > 0))
          => (pr.pc = "block" <=> pr.blockFlows = pr.blockHeader.NumRecords)

\* C18, amended: right after a flow record (of non-zero size) the block is
\* ended exactly when the number of records of the block up to and including
\* that flow record - flow records and records of every other type - equals
\* blockHeader.numRecords; the next record is then taken from the next block.
C18_EndsAtRecordCount ==
    /\ (rets # <<>> /\ LastRet = "nil" /\ nfs.recordHeader.Size # 0)
          => (nfs.readNewBlock
                <=> RecordsBefore(heap, nfs.decompressedBlock, 0, nfs.start)
                       = nfs.blockHeader.NumRecords)
    /\ (/\ pr.recordHeader.Type = FlowRecordHeadType
        /\ pr.recordHeader.Size # 0
        /\ pr.blockHeader.ID = 2
        /\ pr.pc = "block" \/ (pr.pc = "record" /\ pr.blockRecordCount > 0))
          => (pr.pc = "block"
                <=> RecordsBefore(heap, pr.decompressedBlock, 0, pr.start)
                       = pr.blockHeader.NumRecords)

\* C18, its case: in a block of one extension map and two flow records with
\* numRecords 3, both readers have ended the block after the second flow
\* record (ParseReader has then returned).
C18_Witness ==
    /\ file = WholeFile(0, <<FlowBlock>>)
    /\ pr.pc = "done" /\ Len(pr.Records) = 2 /\ pr.blockFlows = 2
    /\ pr.blockHeader.NumRecords = 3
    /\ rets = <<"nil", "nil">>
    /\ nfs.readNewBlock /\ nfs.blockFlows = 2
    /\ nfs.blockHeader.NumRecords = 3

\* The entry the exporter-statistics record ST8 carries, read from its bytes.
StatEntry ==
    [SysID |-> LE32(SubSeq(ST8, 9, 12)),
     SequenceFailures |-> LE32(SubSeq(ST8, 13, 16)),
     Packets |-> LE64(SubSeq(ST8, 17, 24)),
     Flows |-> LE64(SubSeq(ST8, 25, 32))]

\* ExporterStats holds the entry of ST8 under its SysID.
StatStored(stats) == StatEntry.SysID \in DOMAIN stats /\ stats[StatEntry.SysID] = StatEntry

\* The files whose blocks hold a record of type 8 or type 0 with a flow
\* record after it.
EndRecordFiles ==
    {WholeFile(fl, bs) : fl \in {0, lzoCompressed},
                         bs \in {<<StatBlock>>, <<StatBlock, FlowBlock>>,
                                 <<MidSentinelBlock>>, <<MidSentinelBlock, FlowBlock>>}}

\* The errors with which Row returns from the read of a block.
BlockReadErrors == {"EOF", "ErrFailedReadBlockHeader", "ReadBlockFailed", "LzoFailed"}

\* C19: a record of type 0 or type 8 (size not 0) ends its block.  In a Row
\* call the header read after it is the first of a later block, or none is
\* and the call returns from the read of the next block; in ParseReader the
\* next step is the read of the next block.  The entry of a type-8 record is
\* then in ExporterStats under its SysID.  On the files that hold such a
\* record with a flow record after it, the records emitted are the flow
\* records ahead of it in each block, and the readers end without error.
C19_BlockEndRecords ==
    /\ \A i \in 1..Len(lastTrace) :
          LET ev == lastTrace[i] IN
          (ev.Type \in {EmptyRecordHeadType, ExporterStatRecordHeadType} /\ ev.Size # 0)
             => /\ IF i < Len(lastTrace)
                   THEN lastTrace[i + 1].block > ev.block /\ lastTrace[i + 1].start = 0
                   ELSE LastRet \in BlockReadErrors
                /\ (ev.Type = ExporterStatRecordHeadType /\ file \in EndRecordFiles)
                      => StatStored(IF i < Len(lastTrace)
                                    THEN lastTrace[i + 1].tables.ExporterStats
                                    ELSE nfs.ExporterStats)
    /\ pr.recordHeader.Type \in {EmptyRecordHeadType, ExporterStatRecordHeadType}
          => /\ \/ pr.pc \in {"idle", "block", "done"}
                \/ pr.pc = "record" /\ pr.blockRecordCount = 0 /\ pr.start = 0
             /\ (pr.recordHeader.Type = ExporterStatRecordHeadType /\ file \in EndRecordFiles)
                   => StatStored(pr.ExporterStats)
    /\ file \in EndRecordFiles
          => /\ pr.pc = "done" => pr.err = "nil" /\ SameFlows(pr.Records)
             /\ JustEnded => LastRet = "EOF" /\ SameFlows(rows)

\* C19, its case: both readers have walked the block with a type-8 record
\* ahead of its last flow record, then the next block, to the end of the file.
C19_Witness ==
    /\ file = WholeFile(0, <<StatBlock, FlowBlock>>)
    /\ pr.pc = "done" /\ Len(pr.Records) = 3 /\ StatStored(pr.ExporterStats)
    /\ JustEnded /\ LastRet = "EOF" /\ Len(rows) = 3 /\ StatStored(nfs.ExporterStats)

\* The record types the readers have a case for.
HandledTypes ==
    {EmptyRecordHeadType, ExtensionMapRecordHeadType, ExporterInfoRecordHeadType,
     ExporterStatRecordHeadType, SamplerInfoRecordHeadType, FlowRecordHeadType}

\* C20: a record whose type is none of 0, 2, 7, 8, 9, 10 and whose size is
\* not 0 is skipped: the next record header is read at cursor + size in the
\* same block (when none can be read there, the cursor is still at cursor +
\* size), the tables - extension map, Exporters, SamplerInfo, ExporterStats -
\* are as they were when its header was read, and no record is emitted for
\* it.
C20_UnknownSkipped ==
    /\ \A i \in 1..Len(lastTrace) :
          LET ev == lastTrace[i] IN
          (ev.Type \notin HandledTypes /\ ev.Size # 0)
             => IF i < Len(lastTrace)
                THEN /\ lastTrace[i + 1].start = ev.start + ev.Size
                     /\ lastTrace[i + 1].block = ev.block
                     /\ lastTrace[i + 1].tables = ev.tables
                ELSE /\ LastRet = "panic"
                     /\ lastRecord = ZeroRecord
                     /\ nfs.start = ev.start + ev.Size
                     /\ TablesOf(nfs) = ev.tables
    /\ (/\ pr.recordHeader.Type \notin HandledTypes
        /\ pr.recordHeader.Size # 0
        /\ pr.pc = "record" /\ pr.blockRecordCount > 0)
          => /\ pr.start = pr.headerAt.start + pr.recordHeader.Size
             /\ TablesOf(pr) = pr.headerAt.tables
             /\ Len(pr.Records) = pr.headerAt.records

\* C20, its case: both readers have skipped the record of type 5 and size 8
\* that lies between an extension map and a flow record, and have emitted the
\* flow record.
C20_Witness ==
    /\ file = WholeFile(0, <<UnknownMidBlock>>)
    /\ pr.pc = "done" /\ pr.err = "nil" /\ Len(pr.Records) = 1
    /\ 5 \in DOMAIN pr.Meta.RecordIDCount
    /\ rets = <<"nil">>
    /\ Len(lastTrace) = 3
    /\ lastTrace[2].Type = 5 /\ lastTrace[2].Size = 8 /\ lastTrace[2].start = 12
    /\ lastTrace[3].Type = FlowRecordHeadType /\ lastTrace[3].start = 20

\* The records of recs that lie before its k-th flow record.
Preceding(recs, k) ==
    LET at == CHOOSE i \in 1..Len(recs) :
                 /\ IsFlowRec(recs[i])
                 /\ Cardinality({j \in 1..i : IsFlowRec(recs[j])}) = k
    IN SubSeq(recs, 1, at - 1)

\* The positions in recs of the records of this type, and the last of a set
\* of positions.
OfType(recs, type) == {i \in 1..Len(recs) : LE16(SubSeq(recs[i], 1, 2)) = type}
LastOf(S) == CHOOSE i \in S : \A j \in S : j <= i

\* The tables a reader holds after the records recs, read from their bytes:
\* for each key the fields of the last record that carries it.  Of an
\* exporter the Version and ID are compared; an exporter-statistics record
\* carries one entry.
ExpectedExtMap(recs) ==
    LET S == OfType(recs, ExtensionMapRecordHeadType)
        K(i) == LE16(SubSeq(recs[i], 5, 6))
        V(rec) == SelectSeq([x \in 1..((Len(rec) - 8) \div 2) |->
                                LE16(SubSeq(rec, 7 + 2 * x, 8 + 2 * x))], IsExtID)
    IN [k \in {K(i) : i \in S} |-> V(recs[LastOf({i \in S : K(i) = k})])]
ExpectedExporters(recs) ==
    LET S == OfType(recs, ExporterInfoRecordHeadType)
        K(i) == LE16(SubSeq(recs[i], 27, 28))
        V(rec) == [Version |-> LE32(SubSeq(rec, 5, 8)), ID |-> LE32(SubSeq(rec, 29, 32))]
    IN [k \in {K(i) : i \in S} |-> V(recs[LastOf({i \in S : K(i) = k})])]
ExpectedSamplers(recs) ==
    LET S == OfType(recs, SamplerInfoRecordHeadType)
        K(i) == LE16(SubSeq(recs[i], 15, 16))
        V(rec) == [ID |-> LE32(SubSeq(rec, 5, 8)), Interval |-> LE32(SubSeq(rec, 9, 12)),
                   Mode |-> LE16(SubSeq(rec, 13, 14)),
                   ExporterSysID |-> LE16(SubSeq(rec, 15, 16))]
    IN [k \in {K(i) : i \in S} |-> V(recs[LastOf({i \in S : K(i) = k})])]
ExpectedStats(recs) ==
    LET S == OfType(recs, ExporterStatRecordHeadType)
        K(i) == LE32(SubSeq(recs[i], 9, 12))
        V(rec) == [SysID |-> LE32(SubSeq(rec, 9, 12)),
                   SequenceFailures |-> LE32(SubSeq(rec, 13, 16)),
                   Packets |-> LE64(SubSeq(rec, 17, 24)),
                   Flows |-> LE64(SubSeq(rec, 25, 32))]
    IN [k \in {K(i) : i \in S} |-> V(recs[LastOf({i \in S : K(i) = k})])]

\* The tables of stream n are those the records recs leave.
TablesReflect(n, recs) ==
    /\ \A m \in DOMAIN n.extMap \cup DOMAIN ExpectedExtMap(recs) :
          StoredList(n.extMap, m) = StoredList(ExpectedExtMap(recs), m)
    /\ [k \in DOMAIN n.Exporters |->
          [Version |-> n.Exporters[k].Version, ID |-> n.Exporters[k].ID]]
          = ExpectedExporters(recs)
    /\ n.SamplerInfo = ExpectedSamplers(recs)
    /\ n.ExporterStats = ExpectedStats(recs)

CursorAfterFlow ==
    /\ (rets # <<>> /\ LastRet = "nil")
          => nfs.start = lastTrace[Len(lastTrace)].start + lastTrace[Len(lastTrace)].Size
    /\ (/\ pr.recordHeader.Type = FlowRecordHeadType
        /\ pr.blockHeader.ID = 2
        /\ pr.pc = "block" \/ (pr.pc = "record" /\ pr.blockRecordCount > 0))
          => pr.start = pr.headerAt.start + pr.recordHeader.Size

\* A reader that goes on in the block it is in reads the next record header
\* at the cursor.
HeaderAtCursor ==
    /\ (rets' # rets /\ ~nfs.readNewBlock /\ lastTrace' # <<>>)
          => lastTrace'[1].start = nfs.start
    /\ (pr.pc = "record" /\ pr'.Meta.RecordIDCount # pr.Meta.RecordIDCount)
          => pr'.headerAt.start = pr.start

\* C22: after a flow record at cursor s with header size z has been decoded,
\* the cursor is s + z and the next record header is read there, whatever the
\* record's flags, its extensions and the readOffset reached.
C22_NextHeaderAtSize == [](CursorAfterFlow) /\ [][HeaderAtCursor]_vars

\* C22, its case: Row has returned the flow record of size 56 that was
\* decoded up to readOffset 52 at cursor 12, and the next call has read the
\* next header at cursor 68; ParseReader has appended both flow records.
C22_Witness ==
    /\ file = WholeFile(0, <<PaddedFlowBlock>>)
    /\ rets = <<"nil", "nil">>
    /\ lastTrace[1].start = 68 /\ lastTrace[1].Type = FlowRecordHeadType
    /\ snaps[1].First = LE32(SubSeq(FW, 13, 16))
    /\ pr.pc = "done" /\ Len(pr.Records) = 2 /\ pr.headerAt.start = 68

\* The Row calls that returned an error other than io.EOF, and those of
\* them that failed while reading or decompressing a block.
FailedCalls == {i \in 1..Len(rets) : rets[i] \notin {"nil", "EOF", "panic"}}
BlockFailures ==
    {i \in FailedCalls :
        rets[i] \notin {"CorruptRecordSize", "ExtMapV2", "CorruptExtMapID", "ExtNotInMap"}}

\* C23: once Row has returned an error other than io.EOF, every later call
\* on the stream returns an error: none returns a flow record and none
\* panics; and after a failure to read or decompress a block no later call
\* reads a record header out of the block buffer left behind.
C23_ErrorIsFinal ==
    /\ \A i \in FailedCalls :
          \A j \in (i + 1)..Len(rets) : rets[j] \notin {"nil", "panic"}
    /\ (BlockFailures # {} /\ Len(rets) \notin BlockFailures) => lastTrace = <<>>

\* The number of extension IDs a record of header size s holds.
IDsInRecord(s) == IF s < 8 THEN 0 ELSE (s - 8) \div 2

\* The last extension-map record handled read no more IDs than its bytes
\* hold and, when its loop ran to the end, all of them.
ReadsOwnIDs(m) ==
    /\ m.read <= IDsInRecord(m.size)
    /\ m.st = "ok" => m.read = IDsInRecord(m.size)

\* C24: the handler of an extension-map record with header size s reads
\* floor((s - 8) / 2) extension IDs, all inside the s bytes of the record,
\* and none when s < 8.
C24_IDsWithinRecord ==
    /\ nfs.lastMap.st # "none" => ReadsOwnIDs(nfs.lastMap)
    /\ pr.lastMap.st # "none" => ReadsOwnIDs(pr.lastMap)

=============================================================================
